---- MODULE Spec2Model ----
(***************************************************************************)
(* The ckBTC minter state (rs/bitcoin/ckbtc/minter/src/state.rs) as a      *)
(* state machine.  `state` is the CkBtcMinterState object held in the      *)
(* thread-local __STATE; every method of the object is a pure operator     *)
(* from a state record (and the call's arguments) to the next state        *)
(* record, and every action of the specification is one call.  A panic or  *)
(* ic_cdk::trap aborts the call: the canister's state is rolled back, so   *)
(* the state record stays what it was and `last.ok` is FALSE.              *)
(***************************************************************************)
EXTENDS Integers, Sequences, FiniteSets, TLC

VARIABLES
    state,              \* the CkBtcMinterState record
    last,               \* the last call: [op, arg, ok, breaks]
    submission,         \* the batch the submitting task holds between its calls
    fetched,            \* per account: the UTXOs a suspended update_balance fetched
    spent_on_chain,     \* UTXOs consumed by a confirmed Bitcoin transaction
    ledger_next_block,  \* the next burn block index the ledger hands out
    next_txid,          \* the next (never used before) Bitcoin txid
    clock,              \* the time of the last accepted retrieve_btc request
    replayed,           \* the state rebuilt from the log of the events so far
    initialized         \* whether the cell __STATE holds the state

vars == <<state, last, submission, fetched, spent_on_chain, ledger_next_block,
          next_txid, clock, replayed, initialized>>

----------------------------------------------------------------------------
(* Bounds of the model. *)

MaxRequests == 2
MaxTxids == 3

\* The values the callers draw their arguments from.
Times == {0, 1}
BatchSizes == {1, 2}
Outpoints == {1, 2}

----------------------------------------------------------------------------
(* Program constants. *)

MAX_FINALIZED_REQUESTS == 100

----------------------------------------------------------------------------
(* Generic helpers for Vec, BTreeMap and BTreeSet values. *)

Range(seq) == {seq[i] : i \in DOMAIN seq}

\* BTreeMap::insert
MapInsert(m, k, v) == [x \in (DOMAIN m) \cup {k} |-> IF x = k THEN v ELSE m[x]]

\* BTreeMap::remove
MapRemove(m, k) == [x \in (DOMAIN m) \ {k} |-> m[x]]

EmptyMap == [x \in {} |-> 0]

\* *m.entry(k).or_insert(0) += v
EntryAdd(m, k, v) == MapInsert(m, k, (IF k \in DOMAIN m THEN m[k] ELSE 0) + v)

\* Iterator::position: the first index whose element satisfies Test, 0 for None.
Position(seq, Test(_)) ==
    LET hits == {i \in DOMAIN seq : Test(seq[i])}
    IN  IF hits = {} THEN 0 ELSE CHOOSE i \in hits : \A j \in hits : i <= j

\* Vec::swap_remove: the last element takes the place of the removed one.
SwapRemove(seq, pos) ==
    LET n == Len(seq)
    IN  [i \in 1..(n - 1) |-> IF i = pos THEN seq[n] ELSE seq[i]]

\* Vec::retain
Retain(seq, Keep(_)) == SelectSeq(seq, Keep)

RECURSIVE SumOfValues(_)
SumOfValues(utxos) ==
    IF utxos = {} THEN 0
    ELSE LET u == CHOOSE x \in utxos : TRUE
         IN  u.value + SumOfValues(utxos \ {u})

RECURSIVE SumOfAmounts(_)
SumOfAmounts(reqs) ==
    IF reqs = <<>> THEN 0 ELSE Head(reqs).amount + SumOfAmounts(Tail(reqs))

\* slice::sort_by_key(|r| r.received_at): a stable sort.
RECURSIVE InsertByReceivedAt(_, _)
InsertByReceivedAt(sorted, r) ==
    IF sorted = <<>> THEN <<r>>
    ELSE IF Head(sorted).received_at <= r.received_at
         THEN <<Head(sorted)>> \o InsertByReceivedAt(Tail(sorted), r)
         ELSE <<r>> \o sorted

RECURSIVE SortByReceivedAt(_)
SortByReceivedAt(seq) ==
    IF seq = <<>> THEN <<>>
    ELSE InsertByReceivedAt(SortByReceivedAt(SubSeq(seq, 1, Len(seq) - 1)),
                            seq[Len(seq)])

----------------------------------------------------------------------------
(* Domain values. *)

Accounts == {"alice", "bob"}

\* The account whose deposit address holds the output, and the output's value.
OwnerOf(o) == IF o % 2 = 0 THEN "bob" ELSE "alice"
ValueOf(o) == 1 + (o % 2)

Utxo(o) == [outpoint |-> o, value |-> ValueOf(o)]

AllUtxos == {Utxo(o) : o \in Outpoints}

Signing == [kind |-> "Signing", txid |-> 0]
Sending(txid) == [kind |-> "Sending", txid |-> txid]

\* RetrieveBtcRequest; an Option is a sequence of at most one element.
RequestWith(block_index, amount, received_at, kyt_provider, reimbursement_account) ==
    [block_index |-> block_index, amount |-> amount, received_at |-> received_at,
     kyt_provider |-> kyt_provider, reimbursement_account |-> reimbursement_account]

\* A request that went through no KYT check and names no reimbursement account.
Request(block_index, amount, received_at) ==
    RequestWith(block_index, amount, received_at, <<>>, <<>>)

Transaction(txid, requests, used_utxos) ==
    [txid |-> txid, requests |-> requests, used_utxos |-> used_utxos]

Confirmed(txid) == [kind |-> "Confirmed", txid |-> txid]

\* A call's outcome: ok is FALSE for a call that panicked or trapped.
Ok(st) == [ok |-> TRUE, st |-> st]
Trap(st) == [ok |-> FALSE, st |-> st]

----------------------------------------------------------------------------
(* CkBtcMinterState: construction. *)

EmptySuspendedUtxos ==
    [utxos_without_account |-> EmptyMap,
     utxos |-> EmptyMap,
     last_time_checked_cache |-> EmptyMap]

\* enum Mode; the allow list is a Vec<Principal>.
ReadOnly == [kind |-> "ReadOnly", allow_list |-> <<>>]
RestrictedTo(allow_list) == [kind |-> "RestrictedTo", allow_list |-> allow_list]
DepositsRestrictedTo(allow_list) ==
    [kind |-> "DepositsRestrictedTo", allow_list |-> allow_list]
GeneralAvailability == [kind |-> "GeneralAvailability", allow_list |-> <<>>]

\* Result<(), String> of the two availability checks.
Passed == [kind |-> "Ok", message |-> ""]
Err(message) == [kind |-> "Err", message |-> message]

Contains(list, p) == \E i \in DOMAIN list : list[i] = p

is_deposit_available_for(mode, p) ==
    CASE mode.kind = "GeneralAvailability" -> Passed
      [] mode.kind = "ReadOnly" -> Err("the minter is in read-only mode")
      [] mode.kind = "RestrictedTo" ->
            IF ~Contains(mode.allow_list, p)
            THEN Err("access to the minter is temporarily restricted")
            ELSE Passed
      [] mode.kind = "DepositsRestrictedTo" ->
            IF ~Contains(mode.allow_list, p)
            THEN Err("BTC deposits are temporarily restricted")
            ELSE Passed

\* is_withdrawal_available_for that treats both allow lists alike.
is_withdrawal_available_for_depositors(mode, p) ==
    CASE mode.kind = "GeneralAvailability" -> Passed
      [] mode.kind = "ReadOnly" -> Err("the minter is in read-only mode")
      [] mode.kind \in {"RestrictedTo", "DepositsRestrictedTo"} ->
            IF ~Contains(mode.allow_list, p)
            THEN Err("BTC withdrawals are temporarily restricted")
            ELSE Passed

\* is_withdrawal_available_for that lets nobody withdraw under RestrictedTo.
is_withdrawal_available_for_nobody(mode, p) ==
    CASE mode.kind \in {"GeneralAvailability", "DepositsRestrictedTo"} -> Passed
      [] mode.kind = "ReadOnly" -> Err("the minter is in read-only mode")
      [] mode.kind = "RestrictedTo" ->
            Err("BTC withdrawals are temporarily restricted")

is_withdrawal_available_for(mode, p) ==
    CASE mode.kind \in {"GeneralAvailability", "DepositsRestrictedTo"} -> Passed
      [] mode.kind = "ReadOnly" -> Err("the minter is in read-only mode")
      [] mode.kind = "RestrictedTo" ->
            IF ~Contains(mode.allow_list, p)
            THEN Err("BTC withdrawals are temporarily restricted")
            ELSE Passed

\* The values InitArgs leaves to the minter when it names none.
DEFAULT_MIN_CONFIRMATIONS == 6
DEFAULT_CHECK_FEE == 100

\* The InitArgs the minter is installed with (the fields the model keeps).
InitArgs ==
    [btc_network |-> "Mainnet",
     ecdsa_key_name |-> "key_1",
     retrieve_btc_min_amount |-> 3,
     max_time_in_queue_nanos |-> 1,
     min_confirmations |-> <<>>,
     mode |-> GeneralAvailability,
     check_fee |-> <<1>>,
     btc_checker_principal |-> <<"kyt">>,
     kyt_fee |-> <<>>]

\* vec![1; 100]
HundredOnes == [i \in 1..100 |-> 1]

\* impl From<InitArgs> for CkBtcMinterState
From(args) ==
    [btc_network |-> args.btc_network,
     ecdsa_key_name |-> args.ecdsa_key_name,
     min_confirmations |->
        IF args.min_confirmations # <<>> THEN args.min_confirmations[1]
        ELSE DEFAULT_MIN_CONFIRMATIONS,
     max_time_in_queue_nanos |-> args.max_time_in_queue_nanos,
     retrieve_btc_min_amount |-> args.retrieve_btc_min_amount,
     fee_based_retrieve_btc_min_amount |-> args.retrieve_btc_min_amount,
     btc_checker_principal |-> args.btc_checker_principal,
     mode |-> args.mode,
     last_fee_per_vbyte |-> HundredOnes,
     last_transaction_submission_time_ns |-> <<>>,
     retrieve_btc_account_to_block_indices |-> EmptyMap,
     check_fee |->
        IF args.check_fee # <<>> THEN args.check_fee[1] ELSE DEFAULT_CHECK_FEE,
     owed_kyt_amount |-> EmptyMap,
     pending_reimbursements |-> EmptyMap,
     reimbursed_transactions |-> EmptyMap,
     pending_retrieve_btc_requests |-> <<>>,
     requests_in_flight |-> EmptyMap,
     submitted_transactions |-> <<>>,
     stuck_transactions |-> <<>>,
     replacement_txid |-> EmptyMap,
     rev_replacement_txid |-> EmptyMap,
     finalized_requests |-> <<>>,
     finalized_requests_count |-> 0,
     tokens_minted |-> 0,
     tokens_burned |-> 0,
     available_utxos |-> {},
     outpoint_account |-> EmptyMap,
     utxos_state_addresses |-> EmptyMap,
     finalized_utxos |-> EmptyMap,
     update_balance_accounts |-> {},
     checked_utxos |-> EmptyMap,
     suspended_utxos |-> EmptySuspendedUtxos]

\* The state the minter is installed with.
FromInitArgs == From(InitArgs)

----------------------------------------------------------------------------
(* CkBtcMinterState: UTXO bookkeeping. *)

\* BTreeMap<Account, BTreeSet<Utxo>>::entry(account).or_default().insert(utxo)
BucketInsert(m, account, utxo) ==
    MapInsert(m, account,
              (IF account \in DOMAIN m THEN m[account] ELSE {}) \cup {utxo})

RECURSIVE add_utxos_loop(_, _, _)
add_utxos_loop(s, account, utxos) ==
    IF utxos = {} THEN s
    ELSE LET utxo == CHOOSE u \in utxos : TRUE
             s1 == [s EXCEPT
                      !.outpoint_account = MapInsert(@, utxo.outpoint, account),
                      !.available_utxos = @ \cup {utxo},
                      !.checked_utxos = MapRemove(@, utxo),
                      !.utxos_state_addresses = BucketInsert(@, account, utxo)]
         IN  add_utxos_loop(s1, account, utxos \ {utxo})

\* A variant that credits the UTXOs without making them available.
add_utxos_not_available(s, account, utxos) ==
    IF utxos = {} THEN s
    ELSE LET s1 == [s EXCEPT
                      !.tokens_minted = @ + SumOfValues(utxos),
                      !.utxos_state_addresses =
                          IF account \in DOMAIN @ THEN @ ELSE MapInsert(@, account, {})]
         IN  [add_utxos_loop(s1, account, utxos) EXCEPT
                !.available_utxos = s.available_utxos]

\* A variant that does not forget the check of the UTXOs it mints.
add_utxos_keeping_checked(s, account, utxos) ==
    IF utxos = {} THEN s
    ELSE LET s1 == [s EXCEPT
                      !.tokens_minted = @ + SumOfValues(utxos),
                      !.utxos_state_addresses =
                          IF account \in DOMAIN @ THEN @ ELSE MapInsert(@, account, {})]
         IN  [add_utxos_loop(s1, account, utxos) EXCEPT
                !.checked_utxos = s.checked_utxos]

add_utxos(s, account, utxos) ==
    IF utxos = {} THEN s
    ELSE LET s1 == [s EXCEPT
                      !.tokens_minted = @ + SumOfValues(utxos),
                      !.utxos_state_addresses =
                          IF account \in DOMAIN @ THEN @ ELSE MapInsert(@, account, {})]
         IN  add_utxos_loop(s1, account, utxos)

\* A variant that leaves the outpoint_account entry of the UTXO in place.
forget_utxo_keeping_outpoint(s, utxo) ==
    IF utxo.outpoint \in DOMAIN s.outpoint_account
    THEN LET account == s.outpoint_account[utxo.outpoint]
             s2 == IF account \in s.update_balance_accounts
                   THEN [s EXCEPT !.finalized_utxos = BucketInsert(@, account, utxo)]
                   ELSE s
             s3 == IF account \in DOMAIN s2.utxos_state_addresses
                   THEN [s2 EXCEPT !.utxos_state_addresses[account] = @ \ {utxo}]
                   ELSE s2
         IN  IF account \in DOMAIN s3.utxos_state_addresses
                /\ s3.utxos_state_addresses[account] = {}
             THEN [s3 EXCEPT !.utxos_state_addresses = MapRemove(@, account)]
             ELSE s3
    ELSE s

\* A variant that drops the UTXO even when its account is being processed.
forget_utxo_dropping(s, utxo) ==
    IF utxo.outpoint \in DOMAIN s.outpoint_account
    THEN LET account == s.outpoint_account[utxo.outpoint]
             s1 == [s EXCEPT !.outpoint_account = MapRemove(@, utxo.outpoint)]
             s3 == IF account \in DOMAIN s1.utxos_state_addresses
                   THEN [s1 EXCEPT !.utxos_state_addresses[account] = @ \ {utxo}]
                   ELSE s1
         IN  IF account \in DOMAIN s3.utxos_state_addresses
                /\ s3.utxos_state_addresses[account] = {}
             THEN [s3 EXCEPT !.utxos_state_addresses = MapRemove(@, account)]
             ELSE s3
    ELSE s

forget_utxo(s, utxo) ==
    IF utxo.outpoint \in DOMAIN s.outpoint_account
    THEN LET account == s.outpoint_account[utxo.outpoint]
             s1 == [s EXCEPT !.outpoint_account = MapRemove(@, utxo.outpoint)]
             s2 == IF account \in s1.update_balance_accounts
                   THEN [s1 EXCEPT !.finalized_utxos = BucketInsert(@, account, utxo)]
                   ELSE s1
             last_utxo == IF account \in DOMAIN s2.utxos_state_addresses
                          THEN s2.utxos_state_addresses[account] \ {utxo} = {}
                          ELSE FALSE
             s3 == IF account \in DOMAIN s2.utxos_state_addresses
                   THEN [s2 EXCEPT !.utxos_state_addresses[account] = @ \ {utxo}]
                   ELSE s2
         IN  IF last_utxo
             THEN [s3 EXCEPT !.utxos_state_addresses = MapRemove(@, account)]
             ELSE s3
    ELSE s

RECURSIVE forget_utxos(_, _)
forget_utxos(s, utxos) ==
    IF utxos = {} THEN s
    ELSE LET utxo == CHOOSE u \in utxos : TRUE
         IN  forget_utxos(forget_utxo(s, utxo), utxos \ {utxo})

known_utxos_for_account(s, account) ==
    LET existing == account \in DOMAIN s.utxos_state_addresses
        finalized == account \in DOMAIN s.finalized_utxos
    IN  IF existing /\ finalized
        THEN s.utxos_state_addresses[account] \cup s.finalized_utxos[account]
        ELSE IF existing THEN s.utxos_state_addresses[account]
        ELSE IF finalized THEN s.finalized_utxos[account]
        ELSE {}

----------------------------------------------------------------------------
(* CkBtcMinterState: the retrieve_btc pipeline. *)

has_pending_request(s, block_index) ==
    \E i \in DOMAIN s.pending_retrieve_btc_requests :
        s.pending_retrieve_btc_requests[i].block_index = block_index

\* Option<T> is a sequence of at most one element.
NoTxid == <<>>

\* RetrieveBtcStatus
StatusUnknown == [kind |-> "Unknown", txid |-> 0]
StatusPending == [kind |-> "Pending", txid |-> 0]
StatusSubmitted(txid) == [kind |-> "Submitted", txid |-> txid]

retrieve_btc_status(s, block_index) ==
    IF has_pending_request(s, block_index) THEN StatusPending
    ELSE IF block_index \in DOMAIN s.requests_in_flight
    THEN s.requests_in_flight[block_index]
    ELSE LET InTx(tx) == \E i \in DOMAIN tx.requests :
                            tx.requests[i].block_index = block_index
             sub == Position(s.submitted_transactions, InTx)
             IsIt(f) == f.request.block_index = block_index
             fin == Position(s.finalized_requests, IsIt)
         IN  IF sub # 0 THEN StatusSubmitted(s.submitted_transactions[sub].txid)
             ELSE IF fin # 0 THEN s.finalized_requests[fin].state
             ELSE StatusUnknown

\* The principal of the KYT provider.
Principals == {"kyt", "kyt2"}

\* ReimbursementReason
TaintedDestination(kyt_provider, kyt_fee) ==
    [kind |-> "TaintedDestination", kyt_provider |-> kyt_provider, kyt_fee |-> kyt_fee]
CallFailed == [kind |-> "CallFailed", kyt_provider |-> "", kyt_fee |-> 0]

ReimburseDepositTask(account, amount, reason) ==
    [account |-> account, amount |-> amount, reason |-> reason]

ReimbursedDeposit(account, amount, reason, mint_block_index) ==
    [account |-> account, amount |-> amount, reason |-> reason,
     mint_block_index |-> mint_block_index]

\* RetrieveBtcStatusV2
V2(kind, txid) == [kind |-> kind, txid |-> txid, deposit |-> <<>>]
WillReimburse(task) == [kind |-> "WillReimburse", txid |-> 0, deposit |-> <<task>>]
Reimbursed(deposit) == [kind |-> "Reimbursed", txid |-> 0, deposit |-> <<deposit>>]

\* impl From<RetrieveBtcStatus> for RetrieveBtcStatusV2
FromRetrieveBtcStatus(status) ==
    CASE status.kind = "Unknown" -> V2("Unknown", 0)
      [] status.kind = "Pending" -> V2("Pending", 0)
      [] status.kind = "Signing" -> V2("Signing", 0)
      [] status.kind = "Sending" -> V2("Sending", status.txid)
      [] status.kind = "Submitted" -> V2("Submitted", status.txid)
      [] status.kind = "AmountTooLow" -> V2("AmountTooLow", 0)
      [] status.kind = "Confirmed" -> V2("Confirmed", status.txid)

\* A variant that looks at reimbursed_transactions first.
retrieve_btc_status_v2_reimbursed_first(s, block_index) ==
    IF block_index \in DOMAIN s.reimbursed_transactions
    THEN Reimbursed(s.reimbursed_transactions[block_index])
    ELSE IF block_index \in DOMAIN s.pending_reimbursements
    THEN WillReimburse(s.pending_reimbursements[block_index])
    ELSE FromRetrieveBtcStatus(retrieve_btc_status(s, block_index))

\* A variant that does not look at the reimbursements.
retrieve_btc_status_v2_without_reimbursements(s, block_index) ==
    FromRetrieveBtcStatus(retrieve_btc_status(s, block_index))

retrieve_btc_status_v2(s, block_index) ==
    IF block_index \in DOMAIN s.pending_reimbursements
    THEN WillReimburse(s.pending_reimbursements[block_index])
    ELSE IF block_index \in DOMAIN s.reimbursed_transactions
    THEN Reimbursed(s.reimbursed_transactions[block_index])
    ELSE FromRetrieveBtcStatus(retrieve_btc_status(s, block_index))

\* Account { owner: ic_cdk::caller(), subaccount: None }
DefaultAccount(caller) == caller

\* BtcRetrievalStatusV2
BtcRetrievalStatusV2(block_index, status_v2) ==
    [block_index |-> block_index, status_v2 |-> <<status_v2>>]

retrieve_btc_status_v2_by_account(s, target, caller) ==
    LET target_account == IF target = <<>> THEN DefaultAccount(caller) ELSE target[1]
        block_indices ==
            IF target_account \in DOMAIN s.retrieve_btc_account_to_block_indices
            THEN s.retrieve_btc_account_to_block_indices[target_account]
            ELSE <<>>
    IN  [i \in DOMAIN block_indices |->
            BtcRetrievalStatusV2(block_indices[i],
                                 retrieve_btc_status_v2(s, block_indices[i]))]

\* u64::saturating_sub
SaturatingSub(a, b) == IF a >= b THEN a - b ELSE 0

\* A variant for which a wait of max_time_in_queue_nanos is long enough.
can_form_a_batch_at_least(s, min_pending, now) ==
    LET pending == s.pending_retrieve_btc_requests
    IN  \/ Len(pending) >= min_pending
        \/ /\ pending # <<>>
           /\ s.max_time_in_queue_nanos
                  <= SaturatingSub(now, pending[1].received_at)
        \/ /\ pending # <<>>
           /\ s.last_transaction_submission_time_ns # <<>>
           /\ s.max_time_in_queue_nanos
                  <= SaturatingSub(pending[Len(pending)].received_at,
                                  s.last_transaction_submission_time_ns[1])

can_form_a_batch(s, min_pending, now) ==
    LET pending == s.pending_retrieve_btc_requests
    IN  IF Len(pending) >= min_pending THEN TRUE
        ELSE IF /\ pending # <<>>
                /\ s.max_time_in_queue_nanos
                       < SaturatingSub(now, pending[1].received_at)
        THEN TRUE
        ELSE IF /\ pending # <<>>
                /\ s.last_transaction_submission_time_ns # <<>>
                /\ s.max_time_in_queue_nanos
                       < SaturatingSub(pending[Len(pending)].received_at,
                                       s.last_transaction_submission_time_ns[1])
        THEN TRUE
        ELSE FALSE

\* Result<(), Overdraft>
OkUnit == [kind |-> "Ok", amount |-> 0]
Overdraft(amount) == [kind |-> "Overdraft", amount |-> amount]

\* A variant that leaves the owed amount in place on an overdraft.
distribute_kyt_fee_keeping_owed(s, provider, amount) ==
    IF amount = 0 THEN [result |-> OkUnit, st |-> s]
    ELSE IF provider \in DOMAIN s.owed_kyt_amount
    THEN LET balance == s.owed_kyt_amount[provider]
         IN  IF amount > balance
             THEN [result |-> Overdraft(amount - balance), st |-> s]
             ELSE [result |-> OkUnit,
                   st |-> [s EXCEPT !.owed_kyt_amount =
                              IF balance - amount = 0 THEN MapRemove(@, provider)
                              ELSE MapInsert(@, provider, balance - amount)]]
    ELSE [result |-> Overdraft(amount), st |-> s]

distribute_kyt_fee(s, provider, amount) ==
    IF amount = 0 THEN [result |-> OkUnit, st |-> s]
    ELSE IF provider \in DOMAIN s.owed_kyt_amount
    THEN LET balance == s.owed_kyt_amount[provider]
         IN  IF amount > balance
             THEN [result |-> Overdraft(amount - balance),
                   st |-> [s EXCEPT !.owed_kyt_amount = MapRemove(@, provider)]]
             ELSE [result |-> OkUnit,
                   st |-> [s EXCEPT !.owed_kyt_amount =
                              IF balance - amount = 0 THEN MapRemove(@, provider)
                              ELSE MapInsert(@, provider, balance - amount)]]
    ELSE [result |-> Overdraft(amount), st |-> s]

\* Vec::push on the entry of the account, a new Vec when there is none.
EntryPush(m, k, v) == MapInsert(m, k, IF k \in DOMAIN m THEN Append(m[k], v) ELSE <<v>>)

\* A variant that adds the fee whatever it is, creating the entry.
schedule_deposit_reimbursement_any_fee(s, burn_block_index, task) ==
    LET owed == IF task.reason.kind = "TaintedDestination"
                THEN EntryAdd(s.owed_kyt_amount, task.reason.kyt_provider,
                              task.reason.kyt_fee)
                ELSE s.owed_kyt_amount
    IN  Ok([s EXCEPT
              !.owed_kyt_amount = owed,
              !.retrieve_btc_account_to_block_indices =
                  EntryPush(@, task.account, burn_block_index),
              !.pending_reimbursements = MapInsert(@, burn_block_index, task)])

schedule_deposit_reimbursement(s, burn_block_index, task) ==
    LET owed == IF /\ task.reason.kind = "TaintedDestination"
                   /\ task.reason.kyt_fee > 0
                THEN EntryAdd(s.owed_kyt_amount, task.reason.kyt_provider,
                              task.reason.kyt_fee)
                ELSE s.owed_kyt_amount
    IN  Ok([s EXCEPT
              !.owed_kyt_amount = owed,
              !.retrieve_btc_account_to_block_indices =
                  EntryPush(@, task.account, burn_block_index),
              !.pending_reimbursements = MapInsert(@, burn_block_index, task)])

\* UpgradeArgs::default(): every override is None (the empty sequence).
NoOverrides ==
    [retrieve_btc_min_amount |-> <<>>,
     max_time_in_queue_nanos |-> <<>>,
     min_confirmations |-> <<>>,
     mode |-> <<>>,
     check_fee |-> <<>>,
     btc_checker_principal |-> <<>>,
     kyt_fee |-> <<>>]

\* UpgradeArgs { max_time_in_queue_nanos, check_fee, kyt_fee, ..Default::default() }
UpgradeArgs(max_time_in_queue_nanos, check_fee, kyt_fee) ==
    [NoOverrides EXCEPT !.max_time_in_queue_nanos = max_time_in_queue_nanos,
                        !.check_fee = check_fee,
                        !.kyt_fee = kyt_fee]

\* upgrade that takes any min_confirmations it is given.
upgrade_raising_min_confirmations(s, args) ==
    Ok([s EXCEPT
          !.retrieve_btc_min_amount =
              IF args.retrieve_btc_min_amount # <<>>
              THEN args.retrieve_btc_min_amount[1] ELSE @,
          !.fee_based_retrieve_btc_min_amount =
              IF args.retrieve_btc_min_amount # <<>>
              THEN args.retrieve_btc_min_amount[1] ELSE @,
          !.max_time_in_queue_nanos =
              IF args.max_time_in_queue_nanos # <<>>
              THEN args.max_time_in_queue_nanos[1] ELSE @,
          !.min_confirmations =
              IF args.min_confirmations # <<>> THEN args.min_confirmations[1] ELSE @,
          !.mode = IF args.mode # <<>> THEN args.mode[1] ELSE @,
          !.btc_checker_principal =
              IF args.btc_checker_principal # <<>>
              THEN args.btc_checker_principal ELSE @,
          !.check_fee =
              IF args.check_fee # <<>> THEN args.check_fee[1]
              ELSE IF args.kyt_fee # <<>> THEN args.kyt_fee[1]
              ELSE @])

upgrade(s, args) ==
    Ok([s EXCEPT
          !.retrieve_btc_min_amount =
              IF args.retrieve_btc_min_amount # <<>>
              THEN args.retrieve_btc_min_amount[1] ELSE @,
          !.fee_based_retrieve_btc_min_amount =
              IF args.retrieve_btc_min_amount # <<>>
              THEN args.retrieve_btc_min_amount[1] ELSE @,
          !.max_time_in_queue_nanos =
              IF args.max_time_in_queue_nanos # <<>>
              THEN args.max_time_in_queue_nanos[1] ELSE @,
          !.min_confirmations =
              IF args.min_confirmations # <<>>
                 /\ args.min_confirmations[1] < s.min_confirmations
              THEN args.min_confirmations[1] ELSE @,
          !.mode = IF args.mode # <<>> THEN args.mode[1] ELSE @,
          !.btc_checker_principal =
              IF args.btc_checker_principal # <<>>
              THEN args.btc_checker_principal ELSE @,
          !.check_fee =
              IF args.check_fee # <<>> THEN args.check_fee[1]
              ELSE IF args.kyt_fee # <<>> THEN args.kyt_fee[1]
              ELSE @])

\* reinit: the InitArgs applied to an existing state.
reinit(s, args) ==
    Ok([s EXCEPT
          !.btc_network = args.btc_network,
          !.ecdsa_key_name = args.ecdsa_key_name,
          !.retrieve_btc_min_amount = args.retrieve_btc_min_amount,
          !.fee_based_retrieve_btc_min_amount = args.retrieve_btc_min_amount,
          !.max_time_in_queue_nanos = args.max_time_in_queue_nanos,
          !.mode = args.mode,
          !.btc_checker_principal = args.btc_checker_principal,
          !.check_fee =
              IF args.check_fee # <<>> THEN args.check_fee[1]
              ELSE IF args.kyt_fee # <<>> THEN args.kyt_fee[1]
              ELSE @,
          !.min_confirmations =
              IF args.min_confirmations # <<>> THEN args.min_confirmations[1] ELSE @])

\* validate_config that accepts any check_fee.
validate_config_any_fee(s) ==
    IF s.ecdsa_key_name = "" THEN Trap(s)
    ELSE IF s.btc_checker_principal = <<>> THEN Trap(s)
    ELSE Ok(s)

\* validate_config: ic_cdk::trap on a configuration that cannot be run.
validate_config(s) ==
    IF s.check_fee > s.retrieve_btc_min_amount THEN Trap(s)
    ELSE IF s.ecdsa_key_name = "" THEN Trap(s)
    ELSE IF s.btc_checker_principal = <<>> THEN Trap(s)
    ELSE Ok(s)

RECURSIVE build_batch_loop(_, _, _, _, _, _)
build_batch_loop(reqs, available_utxos_value, max_size, pending, batch, tx_amount) ==
    IF reqs = <<>> THEN [pending |-> pending, batch |-> batch]
    ELSE LET req == Head(reqs)
         IN  IF available_utxos_value < req.amount + tx_amount
                \/ Len(batch) >= max_size
             THEN build_batch_loop(Tail(reqs), available_utxos_value, max_size,
                                   Append(pending, req), batch, tx_amount)
             ELSE build_batch_loop(Tail(reqs), available_utxos_value, max_size,
                                   pending, Append(batch, req),
                                   tx_amount + req.amount)

\* A variant whose size test lets one request too many through.
build_batch_one_too_many(s, max_size) ==
    LET r == build_batch_loop(s.pending_retrieve_btc_requests,
                              SumOfValues(s.available_utxos), max_size + 1,
                              <<>>, <<>>, 0)
    IN  [batch |-> r.batch,
         st |-> [s EXCEPT !.pending_retrieve_btc_requests = r.pending]]

\* Returns the batch and the state whose queue holds the requests left behind.
build_batch(s, max_size) ==
    LET r == build_batch_loop(s.pending_retrieve_btc_requests,
                              SumOfValues(s.available_utxos), max_size,
                              <<>>, <<>>, 0)
    IN  [batch |-> r.batch,
         st |-> [s EXCEPT !.pending_retrieve_btc_requests = r.pending]]

\* A variant that makes room at the wrong end of the FIFO.
push_finalized_request_evicting_newest(s, req) ==
    IF has_pending_request(s, req.request.block_index) THEN Trap(s)
    ELSE LET n == Len(s.finalized_requests)
             popped == IF n >= MAX_FINALIZED_REQUESTS
                       THEN SubSeq(s.finalized_requests, 1, n - 1)
                       ELSE s.finalized_requests
         IN  Ok([s EXCEPT !.finalized_requests = Append(popped, req)])

\* A variant that makes room only when the FIFO holds more than the maximum.
push_finalized_request_one_more(s, req) ==
    IF has_pending_request(s, req.request.block_index) THEN Trap(s)
    ELSE LET popped == IF Len(s.finalized_requests) > MAX_FINALIZED_REQUESTS
                       THEN Tail(s.finalized_requests)
                       ELSE s.finalized_requests
         IN  Ok([s EXCEPT !.finalized_requests = Append(popped, req)])

push_finalized_request(s, req) ==
    IF has_pending_request(s, req.request.block_index) THEN Trap(s)
    ELSE LET popped == IF Len(s.finalized_requests) >= MAX_FINALIZED_REQUESTS
                       THEN Tail(s.finalized_requests)
                       ELSE s.finalized_requests
         IN  Ok([s EXCEPT !.finalized_requests = Append(popped, req)])

\* The loop over the requests of the transaction, in order, up to the first
\* panic; the requests are taken half by half, which keeps the evaluation of
\* a transaction of a hundred requests shallow.
RECURSIVE push_finalized_requests(_, _, _)
push_finalized_requests(s, requests, txid) ==
    IF requests = <<>> THEN Ok(s)
    ELSE IF Len(requests) = 1
    THEN push_finalized_request(
             s, [request |-> requests[1], state |-> Confirmed(txid)])
    ELSE LET half == Len(requests) \div 2
             r == push_finalized_requests(s, SubSeq(requests, 1, half), txid)
         IN  IF r.ok
             THEN push_finalized_requests(
                      r.st, SubSeq(requests, half + 1, Len(requests)), txid)
             ELSE r

\* The first loop: follows replacement_txid from the confirmed transaction.
RECURSIVE cleanup_newer(_, _, _, _)
cleanup_newer(repl, rev, to_edge, txids) ==
    IF to_edge \in DOMAIN repl
    THEN LET from_edge == repl[to_edge]
         IN  cleanup_newer(MapRemove(repl, to_edge), MapRemove(rev, from_edge),
                           from_edge, txids \cup {from_edge})
    ELSE [repl |-> repl, rev |-> rev, txids |-> txids]

\* The second loop: follows rev_replacement_txid from the confirmed transaction.
RECURSIVE cleanup_older(_, _, _, _)
cleanup_older(repl, rev, from_edge, txids) ==
    IF from_edge \in DOMAIN rev
    THEN LET to_edge == rev[from_edge]
         IN  cleanup_older(repl, MapRemove(rev, from_edge), to_edge,
                           txids \cup {to_edge})
    ELSE [repl |-> repl, rev |-> rev, txids |-> txids]

\* A variant without the second loop.
cleanup_tx_replacement_chain_one_way(s, confirmed_txid) ==
    LET a == cleanup_newer(s.replacement_txid, s.rev_replacement_txid,
                           confirmed_txid, {})
        txids_to_remove == a.txids
        repl == [x \in (DOMAIN a.repl) \ txids_to_remove |-> a.repl[x]]
        rev == [x \in (DOMAIN a.rev) \ txids_to_remove |-> a.rev[x]]
        Keep(tx) == tx.txid \notin txids_to_remove
        s1 == [s EXCEPT !.replacement_txid = repl, !.rev_replacement_txid = rev]
    IN  IF txids_to_remove = {} THEN s1
        ELSE [s1 EXCEPT !.submitted_transactions = Retain(@, Keep),
                        !.stuck_transactions = Retain(@, Keep)]

cleanup_tx_replacement_chain(s, confirmed_txid) ==
    LET a == cleanup_newer(s.replacement_txid, s.rev_replacement_txid,
                           confirmed_txid, {})
        b == cleanup_older(a.repl, a.rev, confirmed_txid, a.txids)
        txids_to_remove == b.txids
        repl == [x \in (DOMAIN b.repl) \ txids_to_remove |-> b.repl[x]]
        rev == [x \in (DOMAIN b.rev) \ txids_to_remove |-> b.rev[x]]
        Keep(tx) == tx.txid \notin txids_to_remove
        s1 == [s EXCEPT !.replacement_txid = repl, !.rev_replacement_txid = rev]
    IN  IF txids_to_remove = {} THEN s1
        ELSE [s1 EXCEPT !.submitted_transactions = Retain(@, Keep),
                        !.stuck_transactions = Retain(@, Keep)]

\* A variant that counts the transaction and not its requests.
finalize_transaction_counting_one(s, txid) ==
    LET IsIt(tx) == tx.txid = txid
        sub == Position(s.submitted_transactions, IsIt)
        stuck == Position(s.stuck_transactions, IsIt)
    IN  IF sub = 0 /\ stuck = 0 THEN Trap(s)
        ELSE LET finalized_tx == IF sub # 0 THEN s.submitted_transactions[sub]
                                 ELSE s.stuck_transactions[stuck]
                 s1 == IF sub # 0
                       THEN [s EXCEPT !.submitted_transactions = SwapRemove(@, sub)]
                       ELSE [s EXCEPT !.stuck_transactions = SwapRemove(@, stuck)]
                 s2 == forget_utxos(s1, finalized_tx.used_utxos)
                 s3 == [s2 EXCEPT !.finalized_requests_count = @ + 1]
                 r == push_finalized_requests(s3, finalized_tx.requests, txid)
             IN  IF r.ok THEN Ok(cleanup_tx_replacement_chain(r.st, txid))
                 ELSE Trap(s)

finalize_transaction(s, txid) ==
    LET IsIt(tx) == tx.txid = txid
        sub == Position(s.submitted_transactions, IsIt)
        stuck == Position(s.stuck_transactions, IsIt)
    IN  IF sub = 0 /\ stuck = 0 THEN Trap(s)
        ELSE LET finalized_tx == IF sub # 0 THEN s.submitted_transactions[sub]
                                 ELSE s.stuck_transactions[stuck]
                 s1 == IF sub # 0
                       THEN [s EXCEPT !.submitted_transactions = SwapRemove(@, sub)]
                       ELSE [s EXCEPT !.stuck_transactions = SwapRemove(@, stuck)]
                 s2 == forget_utxos(s1, finalized_tx.used_utxos)
                 s3 == [s2 EXCEPT !.finalized_requests_count =
                                      @ + Len(finalized_tx.requests)]
                 r == push_finalized_requests(s3, finalized_tx.requests, txid)
             IN  IF r.ok THEN Ok(cleanup_tx_replacement_chain(r.st, txid))
                 ELSE Trap(s)

\* while let Some(older_txid) = rev.get(txid) { len += 1; txid = older_txid }
\* The loop has no bound of its own: a walk that is not over after `fuel`
\* steps is reported as not finished.
RECURSIVE longest_chain_from(_, _, _, _)
longest_chain_from(rev, txid, len, fuel) ==
    IF txid \notin DOMAIN rev THEN [finished |-> TRUE, len |-> len]
    ELSE IF fuel = 0 THEN [finished |-> FALSE, len |-> len]
    ELSE longest_chain_from(rev, rev[txid], len + 1, fuel - 1)

\* A walk along n edges that do not form a cycle takes at most n steps.
Edges(map) == Cardinality(DOMAIN map)

MaxOf(numbers) ==
    IF numbers = {} THEN 0 ELSE CHOOSE n \in numbers : \A m \in numbers : m <= n

\* A variant that counts the transactions of the chain and not the steps.
longest_resubmission_chain_size_counting_transactions(s) ==
    LET rev == s.rev_replacement_txid
        walks == {longest_chain_from(rev, tx.txid, 1, Edges(rev)) :
                     tx \in Range(s.submitted_transactions)}
    IN  [finished |-> \A w \in walks : w.finished,
         size |-> MaxOf({w.len : w \in walks})]

\* .map(walk).max().unwrap_or_default()
longest_resubmission_chain_size(s) ==
    LET rev == s.rev_replacement_txid
        walks == {longest_chain_from(rev, tx.txid, 0, Edges(rev)) :
                     tx \in Range(s.submitted_transactions)}
    IN  [finished |-> \A w \in walks : w.finished,
         size |-> MaxOf({w.len : w \in walks})]

\* while let Some(newer_txid) = replacement_txid.get(last) { last = newer_txid }
RECURSIVE last_replacement(_, _, _)
last_replacement(repl, last_txid, fuel) ==
    IF last_txid \notin DOMAIN repl THEN [finished |-> TRUE, result |-> <<last_txid>>]
    ELSE IF fuel = 0 THEN [finished |-> FALSE, result |-> <<>>]
    ELSE last_replacement(repl, repl[last_txid], fuel - 1)

\* A variant that stops at the first replacement.
find_last_replacement_tx_first(s, txid) ==
    IF txid \notin DOMAIN s.replacement_txid
    THEN [finished |-> TRUE, result |-> <<>>]
    ELSE [finished |-> TRUE, result |-> <<s.replacement_txid[txid]>>]

\* let mut last = self.replacement_txid.get(txid)?; ...; Some(last)
find_last_replacement_tx(s, txid) ==
    IF txid \notin DOMAIN s.replacement_txid
    THEN [finished |-> TRUE, result |-> <<>>]
    ELSE last_replacement(s.replacement_txid, s.replacement_txid[txid],
                          Edges(s.replacement_txid))

\* A variant that records the reverse edge the wrong way round.
replace_transaction_reversed_edge(s, old_txid, tx) ==
    LET IsOld(t) == t.txid = old_txid
        pos == Position(s.submitted_transactions, IsOld)
    IN  IF old_txid = tx.txid THEN Trap(s)
        ELSE IF old_txid \in DOMAIN s.replacement_txid THEN Trap(s)
        ELSE IF \E i \in DOMAIN tx.requests :
                    has_pending_request(s, tx.requests[i].block_index)
        THEN Trap(s)
        ELSE IF pos = 0 THEN Trap(s)
        ELSE Ok([s EXCEPT
                   !.submitted_transactions[pos] = tx,
                   !.stuck_transactions = Append(@, s.submitted_transactions[pos]),
                   !.replacement_txid = MapInsert(@, old_txid, tx.txid),
                   !.rev_replacement_txid = MapInsert(@, old_txid, tx.txid)])

\* A variant that removes the old transaction and appends the new one.
replace_transaction_appending(s, old_txid, tx) ==
    LET IsOld(t) == t.txid = old_txid
        IsNotOld(t) == t.txid # old_txid
        pos == Position(s.submitted_transactions, IsOld)
    IN  IF old_txid = tx.txid THEN Trap(s)
        ELSE IF old_txid \in DOMAIN s.replacement_txid THEN Trap(s)
        ELSE IF \E i \in DOMAIN tx.requests :
                    has_pending_request(s, tx.requests[i].block_index)
        THEN Trap(s)
        ELSE IF pos = 0 THEN Trap(s)
        ELSE Ok([s EXCEPT
                   !.submitted_transactions = Append(SelectSeq(@, IsNotOld), tx),
                   !.stuck_transactions = Append(@, s.submitted_transactions[pos]),
                   !.replacement_txid = MapInsert(@, old_txid, tx.txid),
                   !.rev_replacement_txid = MapInsert(@, tx.txid, old_txid)])

replace_transaction(s, old_txid, tx) ==
    LET IsOld(t) == t.txid = old_txid
        pos == Position(s.submitted_transactions, IsOld)
    IN  IF old_txid = tx.txid THEN Trap(s)
        ELSE IF old_txid \in DOMAIN s.replacement_txid THEN Trap(s)
        ELSE IF \E i \in DOMAIN tx.requests :
                    has_pending_request(s, tx.requests[i].block_index)
        THEN Trap(s)
        ELSE IF pos = 0 THEN Trap(s)
        ELSE Ok([s EXCEPT
                   !.submitted_transactions[pos] = tx,
                   !.stuck_transactions = Append(@, s.submitted_transactions[pos]),
                   !.replacement_txid = MapInsert(@, old_txid, tx.txid),
                   !.rev_replacement_txid = MapInsert(@, tx.txid, old_txid)])

\* A variant without the assertion.
push_in_flight_request_unchecked(s, block_index, status) ==
    Ok([s EXCEPT !.requests_in_flight = MapInsert(@, block_index, status)])

push_in_flight_request(s, block_index, status) ==
    IF has_pending_request(s, block_index) THEN Trap(s)
    ELSE Ok([s EXCEPT !.requests_in_flight = MapInsert(@, block_index, status)])

\* A variant that appends the requests and does not sort the queue.
push_from_in_flight_to_pending_requests_unsorted(s, requests) ==
    IF \E i \in DOMAIN requests : has_pending_request(s, requests[i].block_index)
    THEN Trap(s)
    ELSE LET blocks == {requests[i].block_index : i \in DOMAIN requests}
         IN  Ok([s EXCEPT
                   !.requests_in_flight =
                       [b \in (DOMAIN @) \ blocks |-> @[b]],
                   !.pending_retrieve_btc_requests = @ \o requests])

\* A variant that leaves the requests in requests_in_flight.
push_from_in_flight_to_pending_requests_still_in_flight(s, requests) ==
    IF \E i \in DOMAIN requests : has_pending_request(s, requests[i].block_index)
    THEN Trap(s)
    ELSE Ok([s EXCEPT !.pending_retrieve_btc_requests =
                          SortByReceivedAt(@ \o requests)])

push_from_in_flight_to_pending_requests(s, requests) ==
    IF \E i \in DOMAIN requests : has_pending_request(s, requests[i].block_index)
    THEN Trap(s)
    ELSE LET blocks == {requests[i].block_index : i \in DOMAIN requests}
         IN  Ok([s EXCEPT
                   !.requests_in_flight =
                       [b \in (DOMAIN @) \ blocks |-> @[b]],
                   !.pending_retrieve_btc_requests =
                       SortByReceivedAt(@ \o requests)])

push_back_pending_request(s, request) ==
    LET pending == s.pending_retrieve_btc_requests
    IN  IF pending # <<>> /\ ~(pending[Len(pending)].received_at <= request.received_at)
        THEN Trap(s)
        ELSE Ok([s EXCEPT
                   !.tokens_burned = @ + request.amount,
                   !.owed_kyt_amount =
                       IF request.kyt_provider = <<>> THEN @
                       ELSE EntryAdd(@, request.kyt_provider[1], s.check_fee),
                   !.pending_retrieve_btc_requests = Append(@, request)])

\* A variant that leaves the requests in requests_in_flight.
push_submitted_transaction_keeping_in_flight(s, tx) ==
    IF \E i \in DOMAIN tx.requests :
           has_pending_request(s, tx.requests[i].block_index)
    THEN Trap(s)
    ELSE Ok([s EXCEPT !.submitted_transactions = Append(@, tx)])

push_submitted_transaction(s, tx) ==
    IF \E i \in DOMAIN tx.requests :
           has_pending_request(s, tx.requests[i].block_index)
    THEN Trap(s)
    ELSE LET blocks == {tx.requests[i].block_index : i \in DOMAIN tx.requests}
         IN  Ok([s EXCEPT
                   !.requests_in_flight = [b \in (DOMAIN @) \ blocks |-> @[b]],
                   !.submitted_transactions = Append(@, tx)])

----------------------------------------------------------------------------
(* Suspended UTXOs and the UTXOs an update_balance call may process. *)

\* Time is counted in hours: const DAY = Duration::from_secs(24 * 60 * 60).
DAY == 24

\* SuspendedUtxos::contains_utxo: (last_time_checked, suspended_reason).
contains_utxo(su, utxo, account) ==
    [last_time_checked |->
        IF utxo \in DOMAIN su.last_time_checked_cache
        THEN <<su.last_time_checked_cache[utxo]>> ELSE <<>>,
     reason |->
        IF account \in DOMAIN su.utxos /\ utxo \in DOMAIN su.utxos[account]
        THEN <<su.utxos[account][utxo]>>
        ELSE IF utxo \in DOMAIN su.utxos_without_account
        THEN <<su.utxos_without_account[utxo]>>
        ELSE <<>>]

is_known(s, utxo, account) ==
    \/ /\ account \in DOMAIN s.utxos_state_addresses
       /\ utxo \in s.utxos_state_addresses[account]
    \/ /\ account \in DOMAIN s.finalized_utxos
       /\ utxo \in s.finalized_utxos[account]

\* The arm of the match that processable_utxos_for_account takes for one UTXO.
classify_utxo(s, utxo, account, now) ==
    LET c == contains_utxo(s.suspended_utxos, utxo, account)
    IN  IF c.reason # <<>>
        THEN IF c.last_time_checked # <<>>
             THEN IF now >= c.last_time_checked[1]
                     /\ now - c.last_time_checked[1] >= DAY
                  THEN "once_suspended" ELSE "suspended"
             ELSE "once_suspended"
        ELSE IF ~is_known(s, utxo, account) THEN "new" ELSE "known"

\* The elements of a BTreeSet<Utxo>, or of an iterator over it, in order.
RECURSIVE InOrder(_)
InOrder(utxos) ==
    IF utxos = {} THEN <<>>
    ELSE LET first == CHOOSE u \in utxos : \A v \in utxos : u.outpoint <= v.outpoint
         IN  <<first>> \o InOrder(utxos \ {first})

\* ProcessableUtxos::default()
NoProcessableUtxos ==
    [new_utxos |-> {},
     previously_ignored_utxos |-> {},
     previously_quarantined_utxos |-> {}]

\* The three assertions of ProcessableUtxos::assert_utxo_is_fresh.
assert_utxo_is_fresh(p, utxo) ==
    /\ utxo \notin p.new_utxos
    /\ utxo \notin p.previously_quarantined_utxos
    /\ utxo \notin p.previously_ignored_utxos

\* A variant that files a once suspended UTXO under both reasons.
insert_once_suspended_utxo_in_both(p, utxo, reason) ==
    IF ~assert_utxo_is_fresh(p, utxo) THEN [ok |-> FALSE, p |-> p]
    ELSE [ok |-> TRUE,
          p |-> [p EXCEPT !.previously_ignored_utxos = @ \cup {utxo},
                          !.previously_quarantined_utxos = @ \cup {utxo}]]

insert_once_suspended_utxo(p, utxo, reason) ==
    IF ~assert_utxo_is_fresh(p, utxo) THEN [ok |-> FALSE, p |-> p]
    ELSE [ok |-> TRUE,
          p |-> IF reason = "ValueTooSmall"
                THEN [p EXCEPT !.previously_ignored_utxos = @ \cup {utxo}]
                ELSE [p EXCEPT !.previously_quarantined_utxos = @ \cup {utxo}]]

insert_once_new_utxo(p, utxo) ==
    IF ~assert_utxo_is_fresh(p, utxo) THEN [ok |-> FALSE, p |-> p]
    ELSE [ok |-> TRUE, p |-> [p EXCEPT !.new_utxos = @ \cup {utxo}]]

\* SuspendedUtxo { utxo, reason, earliest_retry }
SuspendedUtxo(utxo, reason, earliest_retry) ==
    [utxo |-> utxo, reason |-> reason, earliest_retry |-> earliest_retry]

\* The for loop of processable_utxos_for_account; a failed assertion ends it.
RECURSIVE processable_utxos_loop(_, _, _, _, _, _)
processable_utxos_loop(s, utxos, account, now, processable, suspended) ==
    IF utxos = <<>>
    THEN [ok |-> TRUE, processable |-> processable, suspended |-> suspended]
    ELSE LET utxo == Head(utxos)
             c == contains_utxo(s.suspended_utxos, utxo, account)
             arm == classify_utxo(s, utxo, account, now)
             r == IF arm = "once_suspended"
                  THEN insert_once_suspended_utxo(processable, utxo, c.reason[1])
                  ELSE IF arm = "new" THEN insert_once_new_utxo(processable, utxo)
                  ELSE [ok |-> TRUE, p |-> processable]
             pushed == IF arm = "suspended"
                       THEN Append(suspended,
                                   SuspendedUtxo(utxo, c.reason[1],
                                                 c.last_time_checked[1] + DAY))
                       ELSE suspended
         IN  IF r.ok
             THEN processable_utxos_loop(s, Tail(utxos), account, now, r.p, pushed)
             ELSE [ok |-> FALSE, processable |-> processable,
                   suspended |-> suspended]

\* A variant that re-evaluates a suspended UTXO only after more than a day.
processable_utxos_for_account_after_a_day(s, all_utxos_for_account, account, now) ==
    LET Late(u) ==
            LET c == contains_utxo(s.suspended_utxos, u, account)
            IN  /\ c.reason # <<>>
                /\ c.last_time_checked # <<>> => now - c.last_time_checked[1] > DAY
        Held(u) ==
            LET c == contains_utxo(s.suspended_utxos, u, account)
            IN  c.reason # <<>> /\ ~Late(u)
        Known(u) ==
            \/ account \in DOMAIN s.utxos_state_addresses
               /\ u \in s.utxos_state_addresses[account]
            \/ account \in DOMAIN s.finalized_utxos
               /\ u \in s.finalized_utxos[account]
        Suspended(u) ==
            LET c == contains_utxo(s.suspended_utxos, u, account)
            IN  [utxo |-> u, reason |-> c.reason[1],
                 earliest_retry |-> c.last_time_checked[1] + DAY]
        all == {all_utxos_for_account[i] : i \in DOMAIN all_utxos_for_account}
        held == SelectSeq(all_utxos_for_account, Held)
    IN  [ok |-> TRUE,
         new_utxos |->
            {u \in all : contains_utxo(s.suspended_utxos, u, account).reason = <<>>
                            /\ ~Known(u)},
         previously_ignored_utxos |->
            {u \in all : Late(u) /\ contains_utxo(s.suspended_utxos, u, account).reason
                                        = <<"ValueTooSmall">>},
         previously_quarantined_utxos |->
            {u \in all : Late(u) /\ contains_utxo(s.suspended_utxos, u, account).reason
                                        = <<"Quarantined">>},
         suspended_utxos |-> [i \in DOMAIN held |-> Suspended(held[i])]]

\* The result pair, flattened: the three sets of ProcessableUtxos and the
\* Vec<SuspendedUtxo>; ok is FALSE when an assertion failed.
processable_utxos_for_account(s, all_utxos_for_account, account, now) ==
    LET r == processable_utxos_loop(s, all_utxos_for_account, account, now,
                                    NoProcessableUtxos, <<>>)
    IN  [ok |-> r.ok,
         new_utxos |-> r.processable.new_utxos,
         previously_ignored_utxos |-> r.processable.previously_ignored_utxos,
         previously_quarantined_utxos |->
            r.processable.previously_quarantined_utxos,
         suspended_utxos |-> r.suspended]

\* A variant of insert that leaves an entry without account in place.
insert_keeping_legacy(su, account, utxo, reason, now) ==
    LET cached == [su EXCEPT !.last_time_checked_cache =
                                 IF now # <<>> THEN MapInsert(@, utxo, now[1]) ELSE @]
    IN  IF /\ account \in DOMAIN su.utxos
           /\ utxo \in DOMAIN su.utxos[account]
           /\ su.utxos[account][utxo] = reason
        THEN [result |-> FALSE, su |-> cached]
        ELSE [result |-> TRUE,
              su |-> [cached EXCEPT
                         !.utxos = MapInsert(@, account,
                                      MapInsert(IF account \in DOMAIN @
                                                THEN @[account] ELSE EmptyMap,
                                                utxo, reason))]]

\* SuspendedUtxos::insert: (whether the entry is new or changed, the map).
insert(su, account, utxo, reason, now) ==
    LET cached == [su EXCEPT !.last_time_checked_cache =
                                 IF now # <<>> THEN MapInsert(@, utxo, now[1]) ELSE @]
    IN  IF /\ account \in DOMAIN su.utxos
           /\ utxo \in DOMAIN su.utxos[account]
           /\ su.utxos[account][utxo] = reason
        THEN [result |-> FALSE, su |-> cached]
        ELSE [result |-> TRUE,
              su |-> [cached EXCEPT
                         !.utxos_without_account = MapRemove(@, utxo),
                         !.utxos = MapInsert(@, account,
                                      MapInsert(IF account \in DOMAIN @
                                                THEN @[account] ELSE EmptyMap,
                                                utxo, reason))]]

\* SuspendedUtxos::insert_without_account
insert_without_account(su, utxo, reason) ==
    [su EXCEPT !.utxos_without_account = MapInsert(@, utxo, reason)]

\* debug_assert!(self.utxos.values().all(|utxos| !utxos.contains_key(&utxo))):
\* the assertion of insert_without_account, checked by a debug build only.
in_no_account(su, utxo) ==
    \A a \in DOMAIN su.utxos : utxo \notin DOMAIN su.utxos[a]

\* The keys of a BTreeMap<Account, _> in their order.
AccountsInOrder == <<"alice", "bob">>

RECURSIVE Flatten(_)
Flatten(seqs) == IF seqs = <<>> THEN <<>> ELSE Head(seqs) \o Flatten(Tail(seqs))

\* BTreeMap<Utxo, SuspendedReason>::iter
Entries(m) ==
    LET keys == InOrder(DOMAIN m) IN [i \in DOMAIN keys |-> <<keys[i], m[keys[i]]>>]

\* SuspendedUtxos::iter: the entries without account, then those of each
\* account.
iter(su) ==
    LET Present(a) == a \in DOMAIN su.utxos
        accounts == SelectSeq(AccountsInOrder, Present)
    IN  Entries(su.utxos_without_account)
            \o Flatten([i \in DOMAIN accounts |-> Entries(su.utxos[accounts[i]])])

\* A variant of num_utxos that counts the entries of the accounts only.
num_utxos_of_accounts(su) ==
    LET Present(a) == a \in DOMAIN su.utxos
        accounts == SelectSeq(AccountsInOrder, Present)
    IN  Len(Flatten([i \in DOMAIN accounts |-> Entries(su.utxos[accounts[i]])]))

\* SuspendedUtxos::num_utxos
num_utxos(su) ==
    LET Present(a) == a \in DOMAIN su.utxos
        accounts == SelectSeq(AccountsInOrder, Present)
    IN  Cardinality(DOMAIN su.utxos_without_account)
            + Len(Flatten([i \in DOMAIN accounts |->
                              Entries(su.utxos[accounts[i]])]))

\* assert!(utxo.value <= self.check_fee) for ValueTooSmall.
ensure_reason_consistent_with_state(s, utxo, reason) ==
    reason = "ValueTooSmall" => utxo.value <= s.check_fee

\* SuspendedUtxos::remove
remove(su, account, utxo) ==
    [su EXCEPT
       !.last_time_checked_cache = MapRemove(@, utxo),
       !.utxos_without_account = MapRemove(@, utxo),
       !.utxos = IF account \in DOMAIN @
                 THEN MapInsert(@, account, MapRemove(@[account], utxo))
                 ELSE @]

\* A variant of remove_without_account that leaves the entry of the account.
remove_without_account_keeping_account(su, utxo) ==
    [su EXCEPT !.last_time_checked_cache = MapRemove(@, utxo),
               !.utxos_without_account = MapRemove(@, utxo)]

\* SuspendedUtxos::remove_without_account: the loop over the accounts returns
\* at the first one that holds the UTXO.
remove_without_account(su, utxo) ==
    LET Holds(a) == a \in DOMAIN su.utxos /\ utxo \in DOMAIN su.utxos[a]
        holders == SelectSeq(AccountsInOrder, Holds)
    IN  [su EXCEPT
           !.last_time_checked_cache = MapRemove(@, utxo),
           !.utxos_without_account = MapRemove(@, utxo),
           !.utxos = IF holders = <<>> THEN @
                     ELSE MapInsert(@, holders[1],
                                    MapRemove(@[holders[1]], utxo))]

\* CheckedUtxo { uuid: None, status, kyt_provider: None }
CheckedUtxo(status) == [status |-> status, uuid |-> <<>>, kyt_provider |-> <<>>]

\* The deprecated mark_utxo_checked of the legacy events.
mark_utxo_checked(s, utxo, uuid, kyt_provider) ==
    LET s1 == [s EXCEPT
                 !.suspended_utxos = remove_without_account(@, utxo),
                 !.checked_utxos =
                     MapInsert(@, utxo, [status |-> "Clean", uuid |-> uuid,
                                         kyt_provider |-> kyt_provider])]
    IN  IF utxo \notin DOMAIN s.checked_utxos /\ kyt_provider # <<>>
        THEN [s1 EXCEPT !.owed_kyt_amount =
                            EntryAdd(@, kyt_provider[1], s.check_fee)]
        ELSE s1

\* debug_assert_eq!(contains_utxo(&utxo, account), (None, None)): the
\* assertion of mark_utxo_checked_mint_unknown, checked by a debug build only.
not_suspended(s, utxo, account) ==
    contains_utxo(s.suspended_utxos, utxo, account)
        = [last_time_checked |-> <<>>, reason |-> <<>>]

\* A variant of mark_utxo_checked_mint_unknown that records a clean UTXO.
mark_utxo_checked_mint_unknown_as_clean(s, utxo, account) ==
    [s EXCEPT !.checked_utxos = MapInsert(@, utxo, CheckedUtxo("Clean"))]

mark_utxo_checked_mint_unknown(s, utxo, account) ==
    [s EXCEPT !.checked_utxos =
                  MapInsert(@, utxo, CheckedUtxo("CleanButMintUnknown"))]

mint_status_unknown_utxos(s) ==
    LET Unknown(u) == s.checked_utxos[u].status = "CleanButMintUnknown"
    IN  SelectSeq(InOrder(DOMAIN s.checked_utxos), Unknown)

\* A variant of mark_utxo_checked_v2 that leaves the time of the last check.
mark_utxo_checked_v2_keeping_cache(s, utxo, account) ==
    [s EXCEPT !.suspended_utxos =
                  [@ EXCEPT !.utxos_without_account = MapRemove(@, utxo),
                            !.utxos = IF account \in DOMAIN @
                                      THEN MapInsert(@, account,
                                                     MapRemove(@[account], utxo))
                                      ELSE @],
              !.checked_utxos = MapInsert(@, utxo, CheckedUtxo("Clean"))]

mark_utxo_checked_v2(s, utxo, account) ==
    [s EXCEPT !.suspended_utxos = remove(@, account, utxo),
              !.checked_utxos = MapInsert(@, utxo, CheckedUtxo("Clean"))]

suspend_utxo(s, utxo, account, reason, now) ==
    IF ~ensure_reason_consistent_with_state(s, utxo, reason)
    THEN [ok |-> FALSE, st |-> s, result |-> FALSE]
    ELSE LET r == insert(s.suspended_utxos, account, utxo, reason, <<now>>)
         IN  [ok |-> TRUE, st |-> [s EXCEPT !.suspended_utxos = r.su],
              result |-> r.result]

discard_utxo_without_account(s, utxo, reason) ==
    IF ~ensure_reason_consistent_with_state(s, utxo, reason) THEN Trap(s)
    ELSE Ok([s EXCEPT !.suspended_utxos = insert_without_account(@, utxo, reason)])

----------------------------------------------------------------------------
(* Comparison of two states. *)

\* as_sorted_vec(values, |tx| tx.txid): sort_by_key is a stable sort.
RECURSIVE InsertByTxid(_, _)
InsertByTxid(sorted, tx) ==
    IF sorted = <<>> THEN <<tx>>
    ELSE IF Head(sorted).txid <= tx.txid
         THEN <<Head(sorted)>> \o InsertByTxid(Tail(sorted), tx)
         ELSE <<tx>> \o sorted

RECURSIVE SortByTxid(_)
SortByTxid(seq) ==
    IF seq = <<>> THEN <<>>
    ELSE InsertByTxid(SortByTxid(SubSeq(seq, 1, Len(seq) - 1)), seq[Len(seq)])

\* as_sorted_vec(values, |r| r.block_index)
RECURSIVE InsertByBlockIndex(_, _)
InsertByBlockIndex(sorted, r) ==
    IF sorted = <<>> THEN <<r>>
    ELSE IF Head(sorted).block_index <= r.block_index
         THEN <<Head(sorted)>> \o InsertByBlockIndex(Tail(sorted), r)
         ELSE <<r>> \o sorted

RECURSIVE SortByBlockIndex(_)
SortByBlockIndex(seq) ==
    IF seq = <<>> THEN <<>>
    ELSE InsertByBlockIndex(SortByBlockIndex(SubSeq(seq, 1, Len(seq) - 1)),
                            seq[Len(seq)])

\* A variant that compares submitted_transactions in the order they are in.
check_semantically_eq_in_order(s, other) ==
    IF s.btc_network # other.btc_network THEN Err("btc_network does not match")
    ELSE IF s.ecdsa_key_name # other.ecdsa_key_name
    THEN Err("ecdsa_key_name does not match")
    ELSE IF s.min_confirmations # other.min_confirmations
    THEN Err("min_confirmations does not match")
    ELSE IF s.finalized_requests # other.finalized_requests
    THEN Err("finalized_requests do not match")
    ELSE IF s.requests_in_flight # other.requests_in_flight
    THEN Err("requests_in_flight do not match")
    ELSE IF s.available_utxos # other.available_utxos
    THEN Err("available_utxos do not match")
    ELSE IF s.utxos_state_addresses # other.utxos_state_addresses
    THEN Err("utxos_state_addresses do not match")
    ELSE IF s.suspended_utxos.utxos_without_account
               # other.suspended_utxos.utxos_without_account
    THEN Err("suspended_utxos::utxos_without_account does not match")
    ELSE IF s.suspended_utxos.utxos # other.suspended_utxos.utxos
    THEN Err("suspended_utxos::utxos does not match")
    ELSE IF s.checked_utxos # other.checked_utxos
    THEN Err("checked_utxos do not match")
    ELSE IF s.check_fee # other.check_fee THEN Err("check_fee does not match")
    ELSE IF s.owed_kyt_amount # other.owed_kyt_amount
    THEN Err("owed_kyt_amount does not match")
    ELSE IF s.btc_checker_principal # other.btc_checker_principal
    THEN Err("btc_checker_principal does not match")
    ELSE IF s.retrieve_btc_account_to_block_indices
               # other.retrieve_btc_account_to_block_indices
    THEN Err("retrieve_btc_account_to_block_indices does not match")
    ELSE IF s.submitted_transactions # other.submitted_transactions
    THEN Err("submitted_transactions do not match")
    ELSE IF s.stuck_transactions # other.stuck_transactions
    THEN Err("stuck_transactions do not match")
    ELSE IF SortByBlockIndex(s.pending_retrieve_btc_requests)
               # SortByBlockIndex(other.pending_retrieve_btc_requests)
    THEN Err("pending_retrieve_btc_requests do not match")
    ELSE IF s.replacement_txid # other.replacement_txid
    THEN Err("replacement_txid maps do not match")
    ELSE IF s.rev_replacement_txid # other.rev_replacement_txid
    THEN Err("rev_replacement_txid maps do not match")
    ELSE Passed

\* ensure_eq! returns the Err at the first pair that differs.
check_semantically_eq(s, other) ==
    IF s.btc_network # other.btc_network THEN Err("btc_network does not match")
    ELSE IF s.ecdsa_key_name # other.ecdsa_key_name
    THEN Err("ecdsa_key_name does not match")
    ELSE IF s.min_confirmations # other.min_confirmations
    THEN Err("min_confirmations does not match")
    ELSE IF s.finalized_requests # other.finalized_requests
    THEN Err("finalized_requests do not match")
    ELSE IF s.requests_in_flight # other.requests_in_flight
    THEN Err("requests_in_flight do not match")
    ELSE IF s.available_utxos # other.available_utxos
    THEN Err("available_utxos do not match")
    ELSE IF s.utxos_state_addresses # other.utxos_state_addresses
    THEN Err("utxos_state_addresses do not match")
    ELSE IF s.suspended_utxos.utxos_without_account
               # other.suspended_utxos.utxos_without_account
    THEN Err("suspended_utxos::utxos_without_account does not match")
    ELSE IF s.suspended_utxos.utxos # other.suspended_utxos.utxos
    THEN Err("suspended_utxos::utxos does not match")
    ELSE IF s.checked_utxos # other.checked_utxos
    THEN Err("checked_utxos do not match")
    ELSE IF s.check_fee # other.check_fee THEN Err("check_fee does not match")
    ELSE IF s.owed_kyt_amount # other.owed_kyt_amount
    THEN Err("owed_kyt_amount does not match")
    ELSE IF s.btc_checker_principal # other.btc_checker_principal
    THEN Err("btc_checker_principal does not match")
    ELSE IF s.retrieve_btc_account_to_block_indices
               # other.retrieve_btc_account_to_block_indices
    THEN Err("retrieve_btc_account_to_block_indices does not match")
    ELSE IF SortByTxid(s.submitted_transactions)
               # SortByTxid(other.submitted_transactions)
    THEN Err("submitted_transactions do not match")
    ELSE IF s.stuck_transactions # other.stuck_transactions
    THEN Err("stuck_transactions do not match")
    ELSE IF SortByBlockIndex(s.pending_retrieve_btc_requests)
               # SortByBlockIndex(other.pending_retrieve_btc_requests)
    THEN Err("pending_retrieve_btc_requests do not match")
    ELSE IF s.replacement_txid # other.replacement_txid
    THEN Err("replacement_txid maps do not match")
    ELSE IF s.rev_replacement_txid # other.rev_replacement_txid
    THEN Err("rev_replacement_txid maps do not match")
    ELSE Passed

----------------------------------------------------------------------------
(* Fee estimates. *)

\* enum Network
Networks == {"Mainnet", "Testnet", "Regtest"}

\* const DEFAULT_REGTEST_FEE: MillisatoshiPerByte = 5_000
DEFAULT_REGTEST_FEE == 5000

\* crate::compute_min_withdrawal_amount is not part of this source: the
\* amount it returns is modelled as a number that tells apart any two
\* applications to different arguments (amounts and fees below 10).
compute_min_withdrawal_amount(median_fee, min_withdrawal_amount, check_fee) ==
    median_fee * 100 + min_withdrawal_amount * 10 + check_fee

minimum_fee_per_vbyte(s) ==
    CASE s.btc_network = "Mainnet" -> 1500
      [] s.btc_network = "Testnet" -> 1000
      [] s.btc_network = "Regtest" -> 0

Max(a, b) == IF a >= b THEN a ELSE b

\* Vec indices count from 0: last_fee_per_vbyte[50] is the 51st element.
estimate_median_fee_per_vbyte(s) ==
    IF s.btc_network \in {"Mainnet", "Testnet"}
    THEN IF Len(s.last_fee_per_vbyte) < 100 THEN <<>>
         ELSE <<Max(s.last_fee_per_vbyte[51], minimum_fee_per_vbyte(s))>>
    ELSE <<Max(DEFAULT_REGTEST_FEE, minimum_fee_per_vbyte(s))>>

\* A variant that derives the minimum amount from the 51st sample as it is.
update_median_fee_per_vbyte_of_sample(s, fees) ==
    IF Len(fees) < 100 THEN [result |-> <<>>, st |-> s]
    ELSE LET s1 == [s EXCEPT !.last_fee_per_vbyte = fees]
             median_fee == estimate_median_fee_per_vbyte(s1)[1]
         IN  [result |-> <<median_fee>>,
              st |-> [s1 EXCEPT !.fee_based_retrieve_btc_min_amount =
                         compute_min_withdrawal_amount(
                             fees[51], s.retrieve_btc_min_amount, s.check_fee)]]

update_median_fee_per_vbyte(s, fees) ==
    IF Len(fees) < 100 THEN [result |-> <<>>, st |-> s]
    ELSE LET s1 == [s EXCEPT !.last_fee_per_vbyte = fees]
             median_fee == estimate_median_fee_per_vbyte(s1)[1]
         IN  [result |-> <<median_fee>>,
              st |-> [s1 EXCEPT !.fee_based_retrieve_btc_min_amount =
                         compute_min_withdrawal_amount(
                             median_fee, s.retrieve_btc_min_amount, s.check_fee)]]

----------------------------------------------------------------------------
(* The cell __STATE: RefCell<Option<CkBtcMinterState>>.  An Option is a    *)
(* sequence of at most one element; a call that finds no state panics.     *)

\* A variant that hands out the state and leaves it in the cell.
take_state_leaving_state(cell) ==
    IF cell = <<>> THEN [ok |-> FALSE, cell |-> <<>>]
    ELSE [ok |-> TRUE, cell |-> cell]

\* take_state: s.take() leaves None in the cell.
take_state(cell) ==
    IF cell = <<>> THEN [ok |-> FALSE, cell |-> <<>>]
    ELSE [ok |-> TRUE, cell |-> <<>>]

\* mutate_state with an f that returns the state `mutated`.
mutate_state(cell, mutated) ==
    IF cell = <<>> THEN [ok |-> FALSE, cell |-> <<>>]
    ELSE [ok |-> TRUE, cell |-> <<mutated>>]

read_state(cell) ==
    IF cell = <<>> THEN [ok |-> FALSE, cell |-> <<>>]
    ELSE [ok |-> TRUE, cell |-> cell]

replace_state(cell, s) == [ok |-> TRUE, cell |-> <<s>>]

----------------------------------------------------------------------------
(* The callers of the state object.  The submitting task holds the batch   *)
(* that build_batch returned and the UTXOs it selected for the transaction *)
(* until the transaction is submitted or the attempt is given up.          *)

Idle == [stage |-> "idle", requests |-> <<>>, utxos |-> {}, txid |-> 0]

\* The UTXOs selected as inputs of a transaction leave available_utxos.
take_available_utxos(s, utxos) == [s EXCEPT !.available_utxos = @ \ utxos]

\* The inputs of a transaction that was given up are available again.
return_available_utxos(s, utxos) == [s EXCEPT !.available_utxos = @ \cup utxos]

\* The update_balance guard: the account is locked while the call is suspended.
admit_update_balance(s, account) ==
    [s EXCEPT !.update_balance_accounts = @ \cup {account}]

\* The end of update_balance: the lock is released, finalized_utxos drained.
release_update_balance(s, account) ==
    [s EXCEPT !.update_balance_accounts = @ \ {account},
              !.finalized_utxos = MapRemove(@, account)]

RECURSIVE push_in_flight_requests(_, _, _)
push_in_flight_requests(s, requests, status) ==
    IF requests = <<>> THEN Ok(s)
    ELSE LET r == push_in_flight_request(s, Head(requests).block_index, status)
         IN  IF r.ok THEN push_in_flight_requests(r.st, Tail(requests), status)
             ELSE r

\* The record of a call: `breaks` names the obligation of the operation's
\* contract that the caller did not meet ("none" for a call within it).
Call(op, arg, ok, breaks) == [op |-> op, arg |-> arg, ok |-> ok, breaks |-> breaks]

\* The cell holds the state; no log is replayed.
NoReplay == replayed = FromInitArgs /\ initialized = TRUE

\* The state after a call: a call that trapped leaves the state as it was.
Returns(op, arg, r) ==
    /\ state' = IF r.ok THEN r.st ELSE state
    /\ last' = Call(op, arg, r.ok, "none")

\* The amount burned in the ledger block.
AmountOf(block_index) == 1 + (block_index % 2)

FirstBlock ==
    IF ledger_next_block > MAX_FINALIZED_REQUESTS
    THEN MAX_FINALIZED_REQUESTS + 1 ELSE 1

AcceptRetrieveBtcRequest ==
    /\ ledger_next_block - FirstBlock < MaxRequests
    /\ \E t \in {x \in Times : clock <= x} :
          /\ Returns("push_back_pending_request", ledger_next_block,
                     push_back_pending_request(
                         state, Request(ledger_next_block,
                                        AmountOf(ledger_next_block), t)))
          /\ clock' = t
    /\ ledger_next_block' = ledger_next_block + 1
    /\ UNCHANGED <<replayed, initialized>>
    /\ UNCHANGED <<submission, fetched, spent_on_chain, next_txid>>

BuildBatch ==
    /\ submission.stage = "idle"
    /\ state.pending_retrieve_btc_requests # <<>>
    /\ \E max_size \in BatchSizes :
          LET r == build_batch(state, max_size)
          IN  /\ state' = r.st
              /\ last' = Call("build_batch", max_size, TRUE, "none")
              /\ submission' = IF r.batch = <<>> THEN Idle
                               ELSE [Idle EXCEPT !.stage = "batched",
                                                 !.requests = r.batch]
    /\ UNCHANGED <<replayed, initialized>>
    /\ UNCHANGED <<fetched, spent_on_chain, ledger_next_block, next_txid, clock>>

StartSigning ==
    /\ submission.stage = "batched"
    /\ \E utxos \in SUBSET state.available_utxos :
          /\ SumOfValues(utxos) >= SumOfAmounts(submission.requests)
          /\ \A u \in utxos :
                SumOfValues(utxos \ {u}) < SumOfAmounts(submission.requests)
          /\ Returns("push_in_flight_request", "Signing",
                     push_in_flight_requests(take_available_utxos(state, utxos),
                                             submission.requests, Signing))
          /\ submission' = [submission EXCEPT !.stage = "signing", !.utxos = utxos]
    /\ UNCHANGED <<replayed, initialized>>
    /\ UNCHANGED <<fetched, spent_on_chain, ledger_next_block, next_txid, clock>>

StartSending ==
    /\ submission.stage = "signing"
    /\ next_txid <= MaxTxids
    /\ Returns("push_in_flight_request", "Sending",
               push_in_flight_requests(state, submission.requests,
                                       Sending(next_txid)))
    /\ submission' = [submission EXCEPT !.stage = "sending", !.txid = next_txid]
    /\ next_txid' = next_txid + 1
    /\ UNCHANGED <<replayed, initialized>>
    /\ UNCHANGED <<fetched, spent_on_chain, ledger_next_block, clock>>

Submit ==
    /\ submission.stage = "sending"
    /\ Returns("push_submitted_transaction", submission.txid,
               push_submitted_transaction(
                   state, Transaction(submission.txid, submission.requests,
                                      submission.utxos)))
    /\ submission' = Idle
    /\ UNCHANGED <<replayed, initialized>>
    /\ UNCHANGED <<fetched, spent_on_chain, ledger_next_block, next_txid, clock>>

GiveUp ==
    /\ submission.stage \in {"batched", "signing", "sending"}
    /\ Returns("push_from_in_flight_to_pending_requests", submission.txid,
               push_from_in_flight_to_pending_requests(
                   return_available_utxos(state, submission.utxos),
                   submission.requests))
    /\ submission' = Idle
    /\ UNCHANGED <<replayed, initialized>>
    /\ UNCHANGED <<fetched, spent_on_chain, ledger_next_block, next_txid, clock>>

\* A stuck transaction is sent again with a higher fee: the same requests
\* and inputs under a new txid.
Resubmit ==
    /\ next_txid <= MaxTxids
    /\ \E i \in DOMAIN state.submitted_transactions :
          LET old == state.submitted_transactions[i]
          IN  Returns("replace_transaction", old.txid,
                      replace_transaction(
                          state, old.txid,
                          Transaction(next_txid, old.requests, old.used_utxos)))
    /\ next_txid' = next_txid + 1
    /\ UNCHANGED <<replayed, initialized>>
    /\ UNCHANGED <<submission, fetched, spent_on_chain, ledger_next_block, clock>>

\* A submitted or stuck transaction got enough confirmations.
Confirm ==
    /\ \E tx \in Range(state.submitted_transactions)
                    \cup Range(state.stuck_transactions) :
          /\ Returns("finalize_transaction",
                     [txid |-> tx.txid,
                      replaced |-> tx.txid \in DOMAIN state.replacement_txid,
                      replacement |-> tx.txid \in DOMAIN state.rev_replacement_txid],
                     finalize_transaction(state, tx.txid))
          /\ spent_on_chain' = spent_on_chain \cup tx.used_utxos
    /\ UNCHANGED <<replayed, initialized>>
    /\ UNCHANGED <<submission, fetched, ledger_next_block, next_txid, clock>>

\* update_balance up to its suspension: the account is locked and the
\* unspent outputs of its deposit address are fetched.
StartUpdateBalance ==
    /\ \E account \in Accounts \ state.update_balance_accounts :
          LET seen == {u \in AllUtxos \ spent_on_chain :
                          OwnerOf(u.outpoint) = account}
          IN /\ state' = admit_update_balance(state, account)
             /\ fetched' = [fetched EXCEPT ![account] = seen]
             /\ last' = Call("update_balance", account, TRUE, "none")
    /\ UNCHANGED <<replayed, initialized>>
    /\ UNCHANGED <<submission, spent_on_chain, ledger_next_block, next_txid, clock>>

\* update_balance resumed: the new UTXOs among the fetched ones are minted.
FinishUpdateBalance ==
    /\ \E account \in state.update_balance_accounts :
          LET p == processable_utxos_for_account(
                       state, InOrder(fetched[account]), account, clock)
          IN  /\ state' = release_update_balance(
                              add_utxos(state, account, p.new_utxos), account)
              /\ fetched' = [fetched EXCEPT ![account] = {}]
              /\ last' = Call("add_utxos", account, TRUE, "none")
    /\ UNCHANGED <<replayed, initialized>>
    /\ UNCHANGED <<submission, spent_on_chain, ledger_next_block, next_txid, clock>>

\* A minter whose finalized FIFO is full: it has served the requests burned
\* in ledger blocks 1..MAX_FINALIZED_REQUESTS, confirmed by transactions long
\* gone.
RECURSIVE SumOfBurns(_)
SumOfBurns(n) == IF n = 0 THEN 0 ELSE AmountOf(n) + SumOfBurns(n - 1)

AgedState ==
    [FromInitArgs EXCEPT
        !.finalized_requests =
            [i \in 1..MAX_FINALIZED_REQUESTS |->
                [request |-> Request(i, AmountOf(i), 0), state |-> Confirmed(0)]],
        !.finalized_requests_count = MAX_FINALIZED_REQUESTS,
        !.tokens_burned = SumOfBurns(MAX_FINALIZED_REQUESTS),
        !.tokens_minted = SumOfBurns(MAX_FINALIZED_REQUESTS)]

Init ==
    /\ \/ state = FromInitArgs /\ ledger_next_block = 1
       \/ state = AgedState /\ ledger_next_block = MAX_FINALIZED_REQUESTS + 1
    /\ last = Call("init", 0, TRUE, "none")
    /\ NoReplay
    /\ submission = Idle
    /\ fetched = [a \in Accounts |-> {}]
    /\ spent_on_chain = {}
    /\ next_txid = 1
    /\ clock = 0

Next ==
    \/ AcceptRetrieveBtcRequest
    \/ BuildBatch
    \/ StartSigning
    \/ StartSending
    \/ Submit
    \/ GiveUp
    \/ Resubmit
    \/ Confirm
    \/ StartUpdateBalance
    \/ FinishUpdateBalance

Spec == Init /\ [][Next]_vars

----------------------------------------------------------------------------
(* Calls outside the contracts of the operations.  Each of the actions     *)
(* below is one call that does not meet an obligation its operation puts   *)
(* on the caller; `last.breaks` names the obligation.  The run is followed *)
(* up to the first such call.                                              *)

TxidsOfSubmitted == {tx.txid : tx \in Range(state.submitted_transactions)}
TxidsOfStuck == {tx.txid : tx \in Range(state.stuck_transactions)}

Violates(op, arg, r, breaks) ==
    /\ state' = IF r.ok THEN r.st ELSE state
    /\ last' = Call(op, arg, r.ok, breaks)
    /\ UNCHANGED <<replayed, initialized>>
    /\ UNCHANGED <<submission, fetched, spent_on_chain, ledger_next_block,
                   next_txid, clock>>

\* The block indices with a record somewhere in the pipeline.
BlocksOf(requests) == {requests[i].block_index : i \in DOMAIN requests}

RecordedBlocks ==
    BlocksOf(state.pending_retrieve_btc_requests)
        \cup DOMAIN state.requests_in_flight
        \cup UNION {BlocksOf(tx.requests) :
                        tx \in Range(state.submitted_transactions)
                                  \cup Range(state.stuck_transactions)}
        \cup {f.request.block_index : f \in Range(state.finalized_requests)}

\* A request is enqueued under a block index that has a record already; its
\* received_at respects the order of the queue.
EnqueueAgain ==
    \E b \in RecordedBlocks :
        LET request == Request(b, AmountOf(b), clock)
        IN  Violates("push_back_pending_request", request,
                     push_back_pending_request(state, request),
                     "duplicate_block_index")

\* A request of a new block is enqueued with a received_at before the one of
\* the last pending request.
EnqueueOutOfOrder ==
    LET pending == state.pending_retrieve_btc_requests
    IN  /\ pending # <<>>
        /\ \E t \in {x \in Times : x < pending[Len(pending)].received_at} :
              LET request == Request(ledger_next_block,
                                     AmountOf(ledger_next_block), t)
              IN  Violates("push_back_pending_request", request,
                           push_back_pending_request(state, request),
                           "queue_order")

\* A request still in the pending queue is marked in flight.
MarkPendingInFlight ==
    \E b \in BlocksOf(state.pending_retrieve_btc_requests) :
        \E status \in {Signing, Sending(next_txid)} :
            Violates("push_in_flight_request",
                     [block_index |-> b, status |-> status],
                     push_in_flight_request(state, b, status),
                     "pending_request")

\* A transaction that has a replacement is replaced a second time.
ReplaceReplaced ==
    \E old \in Range(state.stuck_transactions) :
        /\ old.txid \in DOMAIN state.replacement_txid
        /\ LET tx == Transaction(next_txid, old.requests, old.used_utxos)
           IN  Violates("replace_transaction", [old_txid |-> old.txid, tx |-> tx],
                        replace_transaction(state, old.txid, tx),
                        "already_replaced")

\* A transaction is replaced by a transaction with its own txid.
ReplaceWithSameTxid ==
    \E old \in Range(state.submitted_transactions) :
        Violates("replace_transaction", [old_txid |-> old.txid, tx |-> old],
                 replace_transaction(state, old.txid, old),
                 "same_txid")

\* The transaction to replace is not a submitted one: its txid belongs to a
\* transaction finalized before, or to none.
ReplaceUnknown ==
    \E old_txid \in (1..next_txid) \ (TxidsOfSubmitted \cup DOMAIN state.replacement_txid) :
        LET tx == Transaction(next_txid + 1, <<>>, {})
        IN  Violates("replace_transaction", [old_txid |-> old_txid, tx |-> tx],
                     replace_transaction(state, old_txid, tx),
                     "unknown_transaction")

\* The transaction to finalize is neither submitted nor stuck.
FinalizeUnknown ==
    \E txid \in (1..next_txid) \ (TxidsOfSubmitted \cup TxidsOfStuck) :
        Violates("finalize_transaction", [txid |-> txid],
                 finalize_transaction(state, txid),
                 "unknown_finalized_transaction")

InitAny ==
    /\ state = FromInitArgs
    /\ ledger_next_block = 1
    /\ last = Call("init", 0, TRUE, "none")
    /\ NoReplay
    /\ submission = Idle
    /\ fetched = [a \in Accounts |-> {}]
    /\ spent_on_chain = {}
    /\ next_txid = 1
    /\ clock = 0

\* No call has left the contracts so far.
InContract == last.breaks = "none"

NextAny ==
    \/ InContract /\ AcceptRetrieveBtcRequest
    \/ InContract /\ BuildBatch
    \/ InContract /\ StartSigning
    \/ InContract /\ StartSending
    \/ InContract /\ Submit
    \/ InContract /\ GiveUp
    \/ InContract /\ Resubmit
    \/ InContract /\ Confirm
    \/ InContract /\ StartUpdateBalance
    \/ InContract /\ FinishUpdateBalance
    \/ InContract /\ EnqueueAgain
    \/ InContract /\ EnqueueOutOfOrder
    \/ InContract /\ MarkPendingInFlight
    \/ InContract /\ ReplaceReplaced
    \/ InContract /\ ReplaceWithSameTxid
    \/ InContract /\ ReplaceUnknown
    \/ InContract /\ FinalizeUnknown

SpecAny == InitAny /\ [][NextAny]_vars

----------------------------------------------------------------------------
(* Definitions shared by the properties. *)

\* How many elements of the sequence satisfy Test.
CountIn(seq, Test(_)) == Cardinality({i \in DOMAIN seq : Test(seq[i])})

RECURSIVE RequestsOfTransactions(_)
RequestsOfTransactions(txs) ==
    IF txs = <<>> THEN <<>>
    ELSE Head(txs).requests \o RequestsOfTransactions(Tail(txs))

InPending(s, b) ==
    LET Is(r) == r.block_index = b IN CountIn(s.pending_retrieve_btc_requests, Is)
InFlight(s, b) == IF b \in DOMAIN s.requests_in_flight THEN 1 ELSE 0
InSubmitted(s, b) ==
    LET Is(r) == r.block_index = b
    IN  CountIn(RequestsOfTransactions(s.submitted_transactions), Is)
InStuck(s, b) ==
    LET Is(r) == r.block_index = b
    IN  CountIn(RequestsOfTransactions(s.stuck_transactions), Is)
InFinalized(s, b) ==
    LET Is(f) == f.request.block_index = b IN CountIn(s.finalized_requests, Is)

\* The block indices of the burns the minter accepted.
KnownBlocks == 1..(ledger_next_block - 1)

\* The number of requests the finalized FIFO has evicted.
Evicted == state.finalized_requests_count - Len(state.finalized_requests)

TxidsOf(txs) == {txs[i].txid : i \in DOMAIN txs}

----------------------------------------------------------------------------
(* C1: every known block_index occurs exactly once across the pending      *)
(* queue, the in-flight map, the requests of submitted transactions, the   *)
(* requests of stuck transactions and the finalized FIFO, and in none of   *)
(* them only once the FIFO has evicted it.                                 *)

OccurrencesAsClaimed(b) ==
    InPending(state, b) + InFlight(state, b) + InSubmitted(state, b)
        + InStuck(state, b) + InFinalized(state, b)

\* C1 as stated.
C1_PartitionAsClaimed ==
    /\ \A b \in KnownBlocks : OccurrencesAsClaimed(b) <= 1
    /\ Cardinality({b \in KnownBlocks : OccurrencesAsClaimed(b) = 0}) = Evicted

\* The records of the pending queue, the in-flight map, the submitted
\* transactions, the finalized FIFO and the batch held by the caller of
\* build_batch: how many they are, and the block indices they carry.
HeldBatch == IF submission.stage = "batched" THEN submission.requests ELSE <<>>

NumberOfRecords ==
    Len(state.pending_retrieve_btc_requests)
        + Cardinality(DOMAIN state.requests_in_flight)
        + Len(RequestsOfTransactions(state.submitted_transactions))
        + Len(state.finalized_requests)
        + Len(HeldBatch)

BlocksOfRecords ==
    BlocksOf(state.pending_retrieve_btc_requests)
        \cup DOMAIN state.requests_in_flight
        \cup BlocksOf(RequestsOfTransactions(state.submitted_transactions))
        \cup {state.finalized_requests[i].request.block_index :
                 i \in DOMAIN state.finalized_requests}
        \cup BlocksOf(HeldBatch)

\* C1 as amended: every known block_index occurs exactly once across the
\* pending queue, the in-flight map, the requests of submitted transactions,
\* the finalized FIFO and the batch build_batch handed to its caller (in none
\* only once evicted); a stuck transaction holds copies of the requests of
\* the submitted transaction that replaces it.
C1_Partition ==
    /\ BlocksOfRecords \subseteq KnownBlocks
    /\ Cardinality(BlocksOfRecords) = NumberOfRecords
    /\ Cardinality(KnownBlocks) - NumberOfRecords = Evicted
    /\ \A tx \in Range(state.stuck_transactions) : \A i \in DOMAIN tx.requests :
          InSubmitted(state, tx.requests[i].block_index) = 1

C1_Witness ==
    /\ state.stuck_transactions # <<>>
    /\ Evicted > 0

----------------------------------------------------------------------------
(* C2: replacement_txid(x) = y exactly when rev_replacement_txid(y) = x,   *)
(* and following replacement_txid never returns to a txid already visited. *)

RECURSIVE ReachableFrom(_, _, _)
ReachableFrom(m, x, seen) ==
    IF x \in DOMAIN m /\ m[x] \notin seen
    THEN ReachableFrom(m, m[x], seen \cup {m[x]})
    ELSE IF x \in DOMAIN m THEN seen \cup {x} ELSE seen

IsInverse(f, g) == \A x \in DOMAIN f : f[x] \in DOMAIN g /\ g[f[x]] = x

Acyclic(m) == \A x \in DOMAIN m : x \notin ReachableFrom(m, x, {})

----------------------------------------------------------------------------
(* C3: outpoint_account maps outpoint o to account a if and only if some   *)
(* UTXO with outpoint o is in utxos_state_addresses[a] or in               *)
(* finalized_utxos[a].                                                     *)

Bucket(m, a) == IF a \in DOMAIN m THEN m[a] ELSE {}

MapsTo(m, k, v) == k \in DOMAIN m /\ m[k] = v

\* C3 as stated.
C3_OutpointAccountAsClaimed ==
    \A o \in Outpoints, a \in Accounts :
        MapsTo(state.outpoint_account, o, a)
            <=> \E u \in Bucket(state.utxos_state_addresses, a)
                          \cup Bucket(state.finalized_utxos, a) : u.outpoint = o

\* C3 as amended: outpoint_account maps o to a if and only if some UTXO with
\* outpoint o is in utxos_state_addresses[a]; a UTXO stashed in
\* finalized_utxos[a] has no outpoint_account entry any more.
C3_OutpointAccount ==
    /\ \A o \in Outpoints, a \in Accounts :
          MapsTo(state.outpoint_account, o, a)
              <=> \E u \in Bucket(state.utxos_state_addresses, a) : u.outpoint = o
    /\ \A a \in Accounts : \A u \in Bucket(state.finalized_utxos, a) :
          u.outpoint \notin DOMAIN state.outpoint_account

C3_Witness ==
    /\ last.op = "finalize_transaction"
    /\ \E a \in Accounts : Bucket(state.finalized_utxos, a) # {}
    /\ DOMAIN state.outpoint_account # {}

----------------------------------------------------------------------------
(* C4: a UTXO is in available_utxos if and only if it is in                *)
(* utxos_state_addresses[a] for some account a and is not among the        *)
(* used_utxos of any submitted or stuck transaction.                       *)

CreditedUtxos(s) ==
    UNION {s.utxos_state_addresses[a] : a \in DOMAIN s.utxos_state_addresses}

UsedUtxos(s) ==
    UNION {tx.used_utxos : tx \in Range(s.submitted_transactions)
                                    \cup Range(s.stuck_transactions)}

----------------------------------------------------------------------------
(* C5: finalize_transaction of any member of a replacement chain leaves no *)
(* edge that mentions a member of the chain and no member of the chain in  *)
(* submitted_transactions or stuck_transactions; the transactions and      *)
(* edges of other chains stay.                                             *)

\* The txids linked to txid by replacement edges, in either direction.
RECURSIVE ChainOf(_, _)
ChainOf(s, txids) ==
    LET next == txids
            \cup {s.replacement_txid[x] : x \in txids \cap DOMAIN s.replacement_txid}
            \cup {s.rev_replacement_txid[x] :
                     x \in txids \cap DOMAIN s.rev_replacement_txid}
    IN  IF next = txids THEN txids ELSE ChainOf(s, next)

Mentioned(m) == DOMAIN m \cup {m[x] : x \in DOMAIN m}

Finalized(l) == l.op = "finalize_transaction" /\ l.ok

\* The part of a BTreeMap outside the chain.
Outside(m, chain) == [x \in {k \in DOMAIN m : k \notin chain /\ m[k] \notin chain} |-> m[x]]

\* C5: after finalize_transaction of a member of a chain, no edge and no
\* submitted or stuck transaction mentions the chain; the rest is as before.
C5_ChainCollapsed ==
    [][Finalized(last') =>
        LET chain == ChainOf(state, {last'.arg.txid})
            Other(tx) == tx.txid \notin chain
        IN  /\ Mentioned(state'.replacement_txid) \cap chain = {}
            /\ Mentioned(state'.rev_replacement_txid) \cap chain = {}
            /\ TxidsOf(state'.submitted_transactions) \cap chain = {}
            /\ TxidsOf(state'.stuck_transactions) \cap chain = {}
            /\ Range(state'.submitted_transactions)
                  = Range(SelectSeq(state.submitted_transactions, Other))
            /\ Len(state'.submitted_transactions)
                  = Len(SelectSeq(state.submitted_transactions, Other))
            /\ state'.stuck_transactions
                  = SelectSeq(state.stuck_transactions, Other)
            /\ state'.replacement_txid = Outside(state.replacement_txid, chain)
            /\ state'.rev_replacement_txid
                  = Outside(state.rev_replacement_txid, chain)]_vars

\* The transaction finalized was in the middle of its chain: it had replaced
\* a transaction and had been replaced itself.
C5_Witness ==
    /\ Finalized(last)
    /\ last.arg.replaced /\ last.arg.replacement

----------------------------------------------------------------------------
(* C6: after finalize_transaction(txid) the status of every request of the *)
(* transaction is Confirmed{txid}, and stays so through later transitions  *)
(* until the finalized FIFO evicts the request.                            *)

\* The transaction a finalize_transaction call finds.
FoundTransaction(s, txid) ==
    LET IsIt(tx) == tx.txid = txid
        sub == Position(s.submitted_transactions, IsIt)
        stuck == Position(s.stuck_transactions, IsIt)
    IN  IF sub # 0 THEN s.submitted_transactions[sub] ELSE s.stuck_transactions[stuck]

\* The entries of the FIFO next to be evicted, and the ones added last.
Watched ==
    LET n == Len(state.finalized_requests)
    IN  {i \in 1..n : i <= MaxRequests + 1 \/ i >= n - MaxRequests}

\* The status of a request in the FIFO is the one its entry records, so it
\* is Confirmed{txid} for as long as the entry stays.
StatusIsRecorded ==
    \A i \in Watched :
        LET f == state.finalized_requests[i]
        IN  retrieve_btc_status(state, f.request.block_index) = f.state

\* An entry leaves the FIFO only from its front, and only when the FIFO is
\* full after the step.
LeavesByEviction ==
    LET old == state.finalized_requests
        new == state'.finalized_requests
        k == Len(old) + (state'.finalized_requests_count
                            - state.finalized_requests_count) - Len(new)
    IN  \/ /\ new = old
           /\ state'.finalized_requests_count = state.finalized_requests_count
        \/ /\ k \in 0..Len(old)
           /\ SubSeq(new, 1, Len(old) - k) = SubSeq(old, k + 1, Len(old))
           /\ k > 0 => Len(new) = MAX_FINALIZED_REQUESTS

\* C6: finalize_transaction makes the status of the transaction's requests
\* Confirmed{txid}; the status of a request in the FIFO is the recorded one;
\* a request leaves the FIFO only by eviction.
C6_ConfirmedStatus ==
    /\ [][Finalized(last') =>
            LET txid == last'.arg.txid
                tx == FoundTransaction(state, txid)
            IN  \A i \in DOMAIN tx.requests :
                    retrieve_btc_status(state', tx.requests[i].block_index)
                        = Confirmed(txid)]_vars
    /\ []StatusIsRecorded
    /\ [][LeavesByEviction]_vars

\* A request confirmed by a transaction of this run is still reported
\* Confirmed after later calls, and the FIFO has evicted older ones.
C6_Witness ==
    /\ ~Finalized(last)
    /\ Evicted > 0
    /\ \E b \in KnownBlocks :
          /\ retrieve_btc_status(state, b).kind = "Confirmed"
          /\ retrieve_btc_status(state, b).txid # 0

----------------------------------------------------------------------------
(* C7: when finalize_transaction runs while account a is in               *)
(* update_balance_accounts and the transaction used a UTXO u credited to   *)
(* a, u moves to finalized_utxos[a], stays among the known UTXOs of a and  *)
(* is not classified as new (so it cannot be minted twice); when a is not  *)
(* in update_balance_accounts, u leaves every per-account collection.      *)

\* tokens_minted before any UTXO of the model was minted.
InitiallyMinted == IF FirstBlock = 1 THEN 0 ELSE AgedState.tokens_minted

\* C7: a UTXO finalized while its account is in update_balance_accounts is
\* stashed in finalized_utxos, stays known and is not new; otherwise it
\* leaves every collection.  No UTXO is minted twice.
C7_FinalizedUtxos ==
    /\ [][Finalized(last') =>
            \A u \in FoundTransaction(state, last'.arg.txid).used_utxos :
                u.outpoint \in DOMAIN state.outpoint_account =>
                    LET a == state.outpoint_account[u.outpoint]
                    IN  IF a \in state.update_balance_accounts
                        THEN /\ u \in Bucket(state'.finalized_utxos, a)
                             /\ u \in known_utxos_for_account(state', a)
                             /\ \A now \in Times :
                                   u \notin processable_utxos_for_account(
                                                state', InOrder(AllUtxos), a, now).new_utxos
                        ELSE /\ \A x \in Accounts :
                                   u \notin known_utxos_for_account(state', x)
                             /\ u.outpoint \notin DOMAIN state'.outpoint_account
                             /\ u \notin state'.available_utxos]_vars
    /\ [](state.tokens_minted <= InitiallyMinted + SumOfValues(AllUtxos))

\* The update_balance call that was suspended when its UTXO was finalized
\* has resumed and has minted another UTXO.
C7_Witness ==
    /\ last.op = "add_utxos"
    /\ spent_on_chain # {}
    /\ \E a \in Accounts : fetched[a] = {} /\ Bucket(state.utxos_state_addresses, a) # {}
    /\ state.tokens_minted = InitiallyMinted + SumOfValues(AllUtxos)

----------------------------------------------------------------------------
(* C8: pending_retrieve_btc_requests is non-decreasing in received_at.     *)

\* C8: the pending queue is non-decreasing in received_at.
C8_QueueSorted ==
    LET pending == state.pending_retrieve_btc_requests
    IN  \A i, j \in DOMAIN pending :
            i < j => pending[i].received_at <= pending[j].received_at

\* A batch was handed back while a request accepted later was waiting: it
\* went back in front of that request.
C8_Witness ==
    /\ last.op = "push_from_in_flight_to_pending_requests"
    /\ LET pending == state.pending_retrieve_btc_requests
       IN  /\ Len(pending) >= 2
           /\ pending[1].received_at < pending[2].received_at

----------------------------------------------------------------------------
(* C9: push_back_pending_request of a request whose block_index has a      *)
(* record in the pipeline already aborts, and no second record with that   *)
(* block_index is created.                                                 *)

RecordsOf(b) ==
    InPending(state, b) + InFlight(state, b) + InSubmitted(state, b)
        + InFinalized(state, b)

\* C9 as stated: the enqueue of a block_index that has a record already
\* aborts and creates no second record.
C9_DuplicateRejected ==
    last.breaks = "duplicate_block_index"
        => ~last.ok /\ RecordsOf(last.arg.block_index) <= 1

----------------------------------------------------------------------------
(* C10: replace_transaction of a transaction that has a replacement, or by *)
(* a transaction of the same txid, or of a transaction that is not         *)
(* submitted; finalize_transaction of a txid neither submitted nor stuck;  *)
(* push_back_pending_request with a received_at below the last pending     *)
(* request's; push_in_flight_request of a pending block: each aborts, and  *)
(* every field of the state is as before the call.                         *)

AbortingViolations ==
    {"already_replaced", "same_txid", "unknown_transaction",
     "unknown_finalized_transaction", "queue_order", "pending_request"}

\* What the operation of the call `l` does in state s.
Outcome(s, l) ==
    CASE l.op = "replace_transaction" ->
            replace_transaction(s, l.arg.old_txid, l.arg.tx)
      [] l.op = "finalize_transaction" -> finalize_transaction(s, l.arg.txid)
      [] l.op = "push_back_pending_request" -> push_back_pending_request(s, l.arg)
      [] l.op = "push_in_flight_request" ->
            push_in_flight_request(s, l.arg.block_index, l.arg.status)

\* C10: each of the listed violations makes its operation abort with the
\* state as it was before the call.
C10_ViolationsAbort ==
    [][last'.breaks \in AbortingViolations =>
            /\ ~Outcome(state, last').ok
            /\ Outcome(state, last').st = state
            /\ ~last'.ok
            /\ state' = state]_vars

\* A transaction that was replaced before was replaced again, and the call
\* aborted.
C10_Witness ==
    /\ last.breaks = "already_replaced"
    /\ ~last.ok
    /\ last.arg.old_txid \in DOMAIN state.replacement_txid

----------------------------------------------------------------------------
(* C11: build_batch(max_size) goes through the pending queue in order and  *)
(* takes a request exactly when the amounts taken before it plus its own   *)
(* do not exceed the value of available_utxos and fewer than max_size      *)
(* requests were taken before it; the batch and the queue left behind are  *)
(* order-preserving subsequences of the previous queue that together hold  *)
(* every previous request once; the batch has at most max_size requests    *)
(* and its amount is at most the available value.                          *)

\* The elements of seq that are in the set, in the order of seq.
Restrict(seq, set) == LET In(x) == x \in set IN SelectSeq(seq, In)

\* The indices, below i, of the requests of `queue` that are in `batch`.
TakenBefore(queue, batch, i) == {j \in 1..(i - 1) : queue[j] \in Range(batch)}

SumOver(queue, indices) == SumOfAmounts(Restrict(queue, {queue[j] : j \in indices}))

\* C11, of every build_batch step: `queue` is the queue before the call,
\* `batch` what the call returned, `left` the queue after it.
C11_GreedyBatch ==
    [][last'.op = "build_batch" =>
        LET queue == state.pending_retrieve_btc_requests
            left == state'.pending_retrieve_btc_requests
            batch == submission'.requests
            max_size == last'.arg
            available == SumOfValues(state.available_utxos)
        IN  /\ \A i \in DOMAIN queue :
                  queue[i] \in Range(batch)
                      <=> /\ SumOver(queue, TakenBefore(queue, batch, i))
                                + queue[i].amount <= available
                          /\ Cardinality(TakenBefore(queue, batch, i)) < max_size
            /\ batch = Restrict(queue, Range(batch))
            /\ left = Restrict(queue, Range(left))
            /\ Range(batch) \cap Range(left) = {}
            /\ Range(batch) \cup Range(left) = Range(queue)
            /\ Len(batch) + Len(left) = Len(queue)
            /\ Len(batch) <= max_size
            /\ SumOfAmounts(batch) <= available]_vars

\* build_batch has passed over a request it could not afford and has taken
\* a later one.
C11_Witness ==
    /\ last.op = "build_batch"
    /\ last.arg > 1
    /\ submission.requests # <<>>
    /\ state.pending_retrieve_btc_requests # <<>>
    /\ state.pending_retrieve_btc_requests[1].block_index
           < submission.requests[1].block_index

----------------------------------------------------------------------------
(* C12: when the batch that build_batch returned, marked in flight         *)
(* (Signing or Sending), is handed back by                                 *)
(* push_from_in_flight_to_pending_requests, none of its block indices      *)
(* stays in requests_in_flight, the pending queue is the sequence it was   *)
(* before build_batch, the status of each returned request is Pending, and *)
(* tokens_burned and owed_kyt_amount are what they were.                   *)

\* build_batch, the batch marked in flight, the batch handed back.
RoundTrip(s, max_size, status) ==
    LET built == build_batch(s, max_size)
        marked == push_in_flight_requests(built.st, built.batch, status)
    IN  [batch |-> built.batch,
         left |-> built.st.pending_retrieve_btc_requests,
         marked |-> marked,
         back |-> push_from_in_flight_to_pending_requests(marked.st, built.batch)]

\* What the round trip restores whatever the order of the queue.
RestoresAllButOrder(s, rt) ==
    /\ rt.marked.ok /\ rt.back.ok
    /\ BlocksOf(rt.batch) \cap DOMAIN rt.back.st.requests_in_flight = {}
    /\ \A i \in DOMAIN rt.batch :
          retrieve_btc_status(rt.back.st, rt.batch[i].block_index) = StatusPending
    /\ rt.back.st.tokens_burned = s.tokens_burned
    /\ rt.back.st.owed_kyt_amount = s.owed_kyt_amount

StatusesOfSending == {Signing, Sending(1)}

\* C12 as stated.
C12_RoundTripAsClaimed ==
    submission.stage = "idle" =>
        \A max_size \in BatchSizes, status \in StatusesOfSending :
            LET rt == RoundTrip(state, max_size, status)
            IN  /\ RestoresAllButOrder(state, rt)
                /\ rt.back.st.pending_retrieve_btc_requests
                       = state.pending_retrieve_btc_requests

NonDecreasing(queue) ==
    \A i, j \in DOMAIN queue : i < j => queue[i].received_at <= queue[j].received_at

Increasing(queue) ==
    \A i, j \in DOMAIN queue : i < j => queue[i].received_at < queue[j].received_at

\* C12 as amended: the queue after the round trip holds the requests it
\* held before build_batch, non-decreasing in received_at; the requests of
\* the batch keep their order, the requests left behind keep theirs, and a
\* returned request stands behind every request left behind that has the
\* same received_at.  It is the sequence it was before build_batch when no
\* two requests have the same received_at.  The rest is as stated.
C12_RoundTrip ==
    submission.stage = "idle" =>
        \A max_size \in BatchSizes, status \in StatusesOfSending :
            LET rt == RoundTrip(state, max_size, status)
                before == state.pending_retrieve_btc_requests
                after == rt.back.st.pending_retrieve_btc_requests
            IN  /\ RestoresAllButOrder(state, rt)
                /\ Range(after) = Range(before) /\ Len(after) = Len(before)
                /\ NonDecreasing(after)
                /\ Restrict(after, Range(rt.batch)) = rt.batch
                /\ Restrict(after, Range(rt.left)) = rt.left
                /\ \A i, j \in DOMAIN after :
                      /\ after[i] \in Range(rt.batch)
                      /\ after[j] \in Range(rt.left)
                      /\ after[i].received_at = after[j].received_at
                      => j < i
                /\ Increasing(before) => after = before

\* A batch was handed back and stands behind a request that was enqueued
\* after it at the same time.
C12_Witness ==
    /\ last.op = "push_from_in_flight_to_pending_requests"
    /\ last.ok
    /\ LET pending == state.pending_retrieve_btc_requests
       IN  /\ Len(pending) >= 2
           /\ pending[1].received_at = pending[2].received_at
           /\ pending[1].block_index > pending[2].block_index

----------------------------------------------------------------------------
(* C13: a replace_transaction(old_txid, new_tx) that returns puts new_tx   *)
(* at the position the old transaction had in submitted_transactions,      *)
(* makes the old transaction the last element of stuck_transactions, adds  *)
(* both replacement_txid[old_txid] = new_tx.txid and                       *)
(* rev_replacement_txid[new_tx.txid] = old_txid, gives every request of    *)
(* new_tx the status Submitted{new_tx.txid}, and leaves every other        *)
(* transaction and edge as it was; no state has one edge without the       *)
(* other.                                                                  *)

EdgesOf(map) == {<<k, map[k]>> : k \in DOMAIN map}

Reversed(edges) == {<<e[2], e[1]>> : e \in edges}

ReplacementFrame ==
    LET old_txid == last'.arg
        new_txid == next_txid
        before == state.submitted_transactions
        after == state'.submitted_transactions
        stuck == state'.stuck_transactions
        pos == CHOOSE i \in DOMAIN before : before[i].txid = old_txid
    IN  /\ Len(after) = Len(before)
        /\ after[pos].txid = new_txid
        /\ \A i \in DOMAIN before : i # pos => after[i] = before[i]
        /\ stuck = Append(state.stuck_transactions, before[pos])
        /\ stuck[Len(stuck)].txid = old_txid
        /\ EdgesOf(state'.replacement_txid)
               = EdgesOf(state.replacement_txid) \cup {<<old_txid, new_txid>>}
        /\ EdgesOf(state'.rev_replacement_txid)
               = EdgesOf(state.rev_replacement_txid) \cup {<<new_txid, old_txid>>}
        /\ <<old_txid, new_txid>> \notin EdgesOf(state.replacement_txid)
        /\ \A i \in DOMAIN after[pos].requests :
              retrieve_btc_status(state', after[pos].requests[i].block_index)
                  = StatusSubmitted(new_txid)

----------------------------------------------------------------------------
(* Operations of the minter that set fields of CkBtcMinterState from       *)
(* outside state.rs.                                                       *)

\* FinalizedStatus::AmountTooLow
AmountTooLow == [kind |-> "AmountTooLow", txid |-> 0]

\* A request whose amount does not cover the fee is finalized as it is.
finalize_amount_too_low(s, request) ==
    push_finalized_request(s, [request |-> request, state |-> AmountTooLow])

\* The reimbursement was minted in the ledger block mint_block_index: the
\* task leaves pending_reimbursements and is kept as a ReimbursedDeposit.
complete_reimbursement(s, burn_block_index, mint_block_index) ==
    IF burn_block_index \notin DOMAIN s.pending_reimbursements THEN Trap(s)
    ELSE LET task == s.pending_reimbursements[burn_block_index]
         IN  Ok([s EXCEPT
                   !.pending_reimbursements = MapRemove(@, burn_block_index),
                   !.reimbursed_transactions =
                       MapInsert(@, burn_block_index,
                                 ReimbursedDeposit(task.account, task.amount,
                                                   task.reason, mint_block_index))])

\* The time of the last submission is recorded with the transaction.
record_submission_time(s, now) ==
    [s EXCEPT !.last_transaction_submission_time_ns = <<now>>]

----------------------------------------------------------------------------
(* The status queries, asked in states in which a block index may be       *)
(* recorded in several collections at once: the operations of state.rs are *)
(* called in an order in which none of them panics, with one block index.  *)

\* The block indices asked for: 1 and 2 may be recorded, 3 never is.
QueriedBlocks == {1, 2, 3}

QueriedRequest == Request(1, AmountOf(1), 0)

\* Block 1 finalized, as AmountTooLow or as Confirmed, or not.
StatesFinalized ==
    {FromInitArgs, finalize_amount_too_low(FromInitArgs, QueriedRequest).st}
        \cup {finalize_transaction(s, 2).st :
                 s \in {push_submitted_transaction(
                            FromInitArgs, Transaction(2, <<QueriedRequest>>, {})).st}}

\* ... then paid by a submitted transaction, or not.
StatesSubmitted ==
    {IF submitted
     THEN push_submitted_transaction(s, Transaction(1, <<QueriedRequest>>, {})).st
     ELSE s :
        s \in StatesFinalized, submitted \in BOOLEAN}

\* ... then marked in flight, or not.
StatesInFlight ==
    {IF status = <<>> THEN s ELSE push_in_flight_request(s, 1, status[1]).st :
        s \in StatesSubmitted, status \in {<<>>, <<Signing>>, <<Sending(3)>>}}

\* ... then enqueued, or not.
StatesPending ==
    {IF pending THEN push_back_pending_request(s, QueriedRequest).st ELSE s :
        s \in StatesInFlight, pending \in BOOLEAN}

\* ... then scheduled for a reimbursement, or not.
StatesScheduled ==
    {IF scheduled
     THEN schedule_deposit_reimbursement(
              s, 1, ReimburseDepositTask("alice", 1, CallFailed)).st
     ELSE s :
        s \in StatesPending, scheduled \in BOOLEAN}

\* ... the reimbursement then completed, or not.
StatesReimbursed ==
    {IF completed /\ 1 \in DOMAIN s.pending_reimbursements
     THEN complete_reimbursement(s, 1, 4).st
     ELSE s :
        s \in StatesScheduled, completed \in BOOLEAN}

\* ... then scheduled for a reimbursement again, or not.
StatesWillReimburse ==
    {IF scheduled
     THEN schedule_deposit_reimbursement(
              s, 1, ReimburseDepositTask(
                        "alice", 2, TaintedDestination("kyt", 1))).st
     ELSE s :
        s \in StatesReimbursed, scheduled \in BOOLEAN}

\* ... and block 2 enqueued, scheduled for a reimbursement, or neither.
StatusStates ==
    {IF other = "pending"
     THEN push_back_pending_request(s, Request(2, AmountOf(2), 0)).st
     ELSE IF other = "will_reimburse"
     THEN schedule_deposit_reimbursement(
              s, 2, ReimburseDepositTask("bob", 2, CallFailed)).st
     ELSE s :
        s \in StatesWillReimburse, other \in {"none", "pending", "will_reimburse"}}

InitStatus ==
    /\ state \in StatusStates
    /\ last = Call("init", 0, TRUE, "none")
    /\ NoReplay
    /\ submission = Idle
    /\ fetched = [a \in Accounts |-> {}]
    /\ spent_on_chain = {}
    /\ ledger_next_block = 1
    /\ next_txid = 1
    /\ clock = 0

\* A query leaves the state as it is; its answer is kept in the call record.
Answers(op, arg, answer) ==
    /\ last' = Call(op, [arg |-> arg, answer |-> answer], TRUE, "none")
    /\ UNCHANGED <<replayed, initialized>>
    /\ UNCHANGED <<state, submission, fetched, spent_on_chain, ledger_next_block,
                   next_txid, clock>>

AskStatus ==
    \E block_index \in QueriedBlocks :
        Answers("retrieve_btc_status", block_index,
                retrieve_btc_status(state, block_index))

AskStatusV2 ==
    \E block_index \in QueriedBlocks :
        Answers("retrieve_btc_status_v2", block_index,
                retrieve_btc_status_v2(state, block_index))

NextStatus ==
    \/ AskStatus
    \/ AskStatusV2

SpecStatus == InitStatus /\ [][NextStatus]_vars

----------------------------------------------------------------------------
(* The operations of CkBtcMinterState called one at a time, within their   *)
(* contracts, in states that calls within the contracts lead to: a queue   *)
(* of requests with the batching parameters set, reimbursements scheduled  *)
(* and completed, transactions waiting for their confirmation.             *)

CallTimes == {0, 1, 2}
Nows == {0, 1, 2, 3}
MinPendings == {1, 3}

\* A block index that no record has in any of the states.
NewBlock == 401

Tasks ==
    {ReimburseDepositTask(account, 2, reason) :
        account \in Accounts,
        reason \in {CallFailed, TaintedDestination("kyt", 0),
                    TaintedDestination("kyt", 1)}}

RECURSIVE push_back_pending_requests(_, _)
push_back_pending_requests(s, requests) ==
    IF requests = <<>> THEN s
    ELSE push_back_pending_requests(
             push_back_pending_request(s, Head(requests)).st, Tail(requests))

Queues ==
    {<<>>}
        \cup {<<Request(1, AmountOf(1), t)>> : t \in CallTimes}
        \cup {<<Request(1, AmountOf(1), t[1]), Request(2, AmountOf(2), t[2])>> :
                 t \in {x \in CallTimes \X CallTimes : x[1] <= x[2]}}

\* A queue of requests, max_time_in_queue_nanos as installed or upgraded,
\* the time of the last submission recorded or not.
QueueStates ==
    {LET s1 == upgrade(FromInitArgs, UpgradeArgs(max_time, <<>>, <<>>)).st
         s2 == push_back_pending_requests(s1, queue)
     IN  IF submitted_at = <<>> THEN s2
         ELSE record_submission_time(s2, submitted_at[1]) :
        max_time \in {<<>>, <<0>>, <<2>>},
        queue \in Queues,
        submitted_at \in {<<>>} \cup {<<t>> : t \in CallTimes}}

\* The reimbursement of burn block 1 scheduled or completed, the one of
\* burn block 2 scheduled.
ReimbursementStates ==
    {LET s1 == IF first = <<>> THEN FromInitArgs
               ELSE schedule_deposit_reimbursement(FromInitArgs, 1, first[1]).st
         s2 == IF first # <<>> /\ completed
               THEN complete_reimbursement(s1, 1, 3).st ELSE s1
     IN  IF second = <<>> THEN s2
         ELSE schedule_deposit_reimbursement(s2, 2, second[1]).st :
        first \in {<<>>} \cup {<<task>> : task \in Tasks},
        completed \in BOOLEAN,
        second \in {<<>>} \cup {<<task>> : task \in Tasks}}

\* A transaction that pays more requests than finalized_requests keeps.
BigTransaction ==
    Transaction(3, [i \in 1..(MAX_FINALIZED_REQUESTS + 1) |-> Request(200 + i, 1, 0)],
                {})

SmallTransaction(txid) ==
    Transaction(txid, <<Request(301, 1, 0), Request(302, 2, 1)>>, {})

\* A transaction submitted, replaced or not, or its requests in flight;
\* finalized_requests empty or full.
TransactionStates ==
    {push_submitted_transaction(base, tx).st :
        base \in {FromInitArgs, AgedState},
        tx \in {BigTransaction, SmallTransaction(1)}}
    \cup
    {replace_transaction(push_submitted_transaction(base, SmallTransaction(1)).st,
                         1, SmallTransaction(2)).st :
        base \in {FromInitArgs, AgedState}}
    \cup
    {push_in_flight_requests(base, SmallTransaction(1).requests, Signing).st :
        base \in {FromInitArgs, AgedState}}

\* check_fee as installed or upgraded.
StatesWithFee ==
    {upgrade(FromInitArgs, UpgradeArgs(<<>>, check_fee, <<>>)).st :
        check_fee \in {<<>>, <<0>>, <<2>>}}

\* ... then a request enqueued, checked by a provider or not.
StatesOwingOnce ==
    {IF provider = <<>> THEN s
     ELSE push_back_pending_request(
              s, RequestWith(1, AmountOf(1), 0, provider, <<>>)).st :
        s \in StatesWithFee, provider \in {<<>>} \cup {<<p>> : p \in Principals}}

\* ... then a second request enqueued, checked by a provider or not.
FeeStates ==
    {IF provider = <<>> THEN s
     ELSE push_back_pending_request(
              s, RequestWith(2, AmountOf(2), 0, provider, <<>>)).st :
        s \in StatesOwingOnce, provider \in {<<>>} \cup {<<p>> : p \in Principals}}

\* The UTXOs of deposits: two at alice's address, one at bob's.
DepositedUtxos == {Utxo(1), Utxo(2), Utxo(3)}

\* The first deposit was checked, or checked and minted, or is not known yet.
StatesFirstDeposit ==
    {CASE known = "no" -> FromInitArgs
       [] known = "checked" -> mark_utxo_checked_v2(FromInitArgs, Utxo(1), "alice")
       [] known = "minted" -> add_utxos(FromInitArgs, "alice", {Utxo(1)}) :
        known \in {"no", "checked", "minted"}}

StatesSecondDeposit ==
    {CASE known = "no" -> s
       [] known = "checked" -> mark_utxo_checked_v2(s, Utxo(2), "bob")
       [] known = "minted" -> add_utxos(s, "bob", {Utxo(2)}) :
        s \in StatesFirstDeposit, known \in {"no", "checked", "minted"}}

DepositStates ==
    {CASE known = "no" -> s
       [] known = "checked" -> mark_utxo_checked_v2(s, Utxo(3), "alice")
       [] known = "minted" -> add_utxos(s, "alice", {Utxo(3)}) :
        s \in StatesSecondDeposit, known \in {"no", "checked", "minted"}}

\* The minter installed on each network, with either check_fee.
NetworkStates ==
    {From([InitArgs EXCEPT !.btc_network = btc_network, !.check_fee = check_fee]) :
        btc_network \in Networks, check_fee \in {<<1>>, <<2>>}}

\* Fee percentiles as the Bitcoin canister returns them, lowest first: all
\* alike, or rising after the 50th.
FeeSamples ==
    {[i \in 1..n |-> fee] : n \in {0, 99, 100, 101}, fee \in {500, 1200, 2000}}
    \cup {[i \in 1..n |-> IF i <= 50 THEN 1200 ELSE 2000] : n \in {99, 100}}

\* The principals that ask for a deposit or a withdrawal.
Callers == {"alice", "bob"}

AllowLists == {<<>>, <<"alice">>, <<"bob">>, <<"bob", "alice">>}

Modes ==
    {ReadOnly, GeneralAvailability}
    \cup {RestrictedTo(l) : l \in AllowLists}
    \cup {DepositsRestrictedTo(l) : l \in AllowLists}

\* The minter installed in each mode.
ModeStates == {From([InitArgs EXCEPT !.mode = mode]) : mode \in Modes}

InitCalls ==
    /\ state \in QueueStates \cup ReimbursementStates \cup TransactionStates
                     \cup FeeStates \cup ModeStates \cup DepositStates
                     \cup NetworkStates
    /\ last = Call("init", 0, TRUE, "none")
    /\ NoReplay
    /\ submission = Idle
    /\ fetched = [a \in Accounts |-> {}]
    /\ spent_on_chain = {}
    /\ ledger_next_block = 1
    /\ next_txid = 1
    /\ clock = 0

\* One operation is applied to the state.
Applies(op, arg, r) ==
    /\ last.op = "init"
    /\ Returns(op, arg, r)
    /\ UNCHANGED <<replayed, initialized>>
    /\ UNCHANGED <<submission, fetched, spent_on_chain, ledger_next_block,
                   next_txid, clock>>

LastReceivedAt(s) ==
    IF s.pending_retrieve_btc_requests = <<>> THEN 0
    ELSE s.pending_retrieve_btc_requests[Len(s.pending_retrieve_btc_requests)].received_at

CallPushBackPendingRequest ==
    \E t \in {x \in CallTimes : LastReceivedAt(state) <= x},
       kyt_provider \in {<<>>} \cup {<<p>> : p \in Principals},
       reimbursement_account \in {<<>>, <<"alice">>} :
        LET request == RequestWith(NewBlock, AmountOf(NewBlock), t, kyt_provider,
                                   reimbursement_account)
        IN  Applies("push_back_pending_request", request,
                    push_back_pending_request(state, request))

CallUpgrade ==
    \E max_time \in {<<>>, <<0>>}, check_fee \in {<<>>, <<2>>},
       kyt_fee \in {<<>>, <<3>>} :
        LET args == UpgradeArgs(max_time, check_fee, kyt_fee)
        IN  Applies("upgrade", args, upgrade(state, args))

CallAddUtxos ==
    \E account \in Accounts :
        \E utxos \in SUBSET {u \in DepositedUtxos : OwnerOf(u.outpoint) = account} :
            Applies("add_utxos", [account |-> account, utxos |-> utxos],
                    Ok(add_utxos(state, account, utxos)))

CallPushSubmittedTransaction ==
    /\ state.requests_in_flight # EmptyMap
    /\ LET tx == SmallTransaction(1)
       IN  Applies("push_submitted_transaction", tx.txid,
                   push_submitted_transaction(state, tx))

CallPushFromInFlightToPendingRequests ==
    /\ state.requests_in_flight # EmptyMap
    /\ Applies("push_from_in_flight_to_pending_requests", 0,
               push_from_in_flight_to_pending_requests(
                   state, SmallTransaction(1).requests))

CallReplaceTransaction ==
    \E tx \in Range(state.submitted_transactions) :
        /\ tx.txid \notin DOMAIN state.replacement_txid
        /\ Applies("replace_transaction", tx.txid,
                   replace_transaction(
                       state, tx.txid,
                       Transaction(tx.txid + 3, tx.requests, tx.used_utxos)))

CallFinalizeTransaction ==
    \E tx \in Range(state.submitted_transactions)
                  \cup Range(state.stuck_transactions) :
        Applies("finalize_transaction",
                [txid |-> tx.txid,
                 replaced |-> tx.txid \in DOMAIN state.replacement_txid,
                 replacement |-> tx.txid \in DOMAIN state.rev_replacement_txid],
                finalize_transaction(state, tx.txid))

CallScheduleDepositReimbursement ==
    \E task \in Tasks :
        Applies("schedule_deposit_reimbursement",
                [burn_block_index |-> NewBlock, task |-> task],
                schedule_deposit_reimbursement(state, NewBlock, task))

\* The reimbursement that is completed may have been scheduled by the call
\* before.
CallCompleteReimbursement ==
    /\ last.op \in {"init", "schedule_deposit_reimbursement"}
    /\ \E burn_block_index \in DOMAIN state.pending_reimbursements :
          Returns("complete_reimbursement",
                  [burn_block_index |-> burn_block_index, mint_block_index |-> 402],
                  complete_reimbursement(state, burn_block_index, 402))
    /\ UNCHANGED <<replayed, initialized>>
    /\ UNCHANGED <<submission, fetched, spent_on_chain, ledger_next_block,
                   next_txid, clock>>

DistributedAmounts == {0, 1, 2, 3}

\* An overdraft is returned to the caller: the call does not trap.
CallDistributeKytFee ==
    /\ last.op = "init"
    /\ \E provider \in Principals, amount \in DistributedAmounts :
          LET r == distribute_kyt_fee(state, provider, amount)
          IN  /\ state' = r.st
              /\ last' = Call("distribute_kyt_fee",
                              [provider |-> provider, amount |-> amount,
                               result |-> r.result], TRUE, "none")
    /\ UNCHANGED <<replayed, initialized>>
    /\ UNCHANGED <<submission, fetched, spent_on_chain, ledger_next_block,
                   next_txid, clock>>

\* The fees are refreshed on a minter that has nothing else going on.
CallUpdateMedianFeePerVbyte ==
    /\ last.op = "init"
    /\ state \in NetworkStates
    /\ \E fees \in FeeSamples :
          LET r == update_median_fee_per_vbyte(state, fees)
          IN  /\ state' = r.st
              /\ last' = Call("update_median_fee_per_vbyte",
                              [fees |-> fees, result |-> r.result], TRUE, "none")
    /\ UNCHANGED <<replayed, initialized>>
    /\ UNCHANGED <<submission, fetched, spent_on_chain, ledger_next_block,
                   next_txid, clock>>

AskDepositAvailable ==
    /\ last.op = "init"
    /\ \E p \in Callers :
        Answers("is_deposit_available_for", p,
                is_deposit_available_for(state.mode, p))

AskWithdrawalAvailable ==
    /\ last.op = "init"
    /\ \E p \in Callers :
        Answers("is_withdrawal_available_for", p,
                is_withdrawal_available_for(state.mode, p))

AskCanFormABatch ==
    \E min_pending \in MinPendings, now \in Nows :
        Answers("can_form_a_batch", [min_pending |-> min_pending, now |-> now],
                can_form_a_batch(state, min_pending, now))

AskStatusByAccount ==
    \E target \in {<<>>} \cup {<<a>> : a \in Accounts} :
        Answers("retrieve_btc_status_v2_by_account", target,
                retrieve_btc_status_v2_by_account(state, target, "bob"))

NextCalls ==
    \/ CallPushBackPendingRequest
    \/ CallUpgrade
    \/ CallAddUtxos
    \/ CallPushSubmittedTransaction
    \/ CallPushFromInFlightToPendingRequests
    \/ CallReplaceTransaction
    \/ CallFinalizeTransaction
    \/ CallScheduleDepositReimbursement
    \/ CallCompleteReimbursement
    \/ CallDistributeKytFee
    \/ AskCanFormABatch
    \/ AskStatusByAccount
    \/ CallUpdateMedianFeePerVbyte
    \/ AskDepositAvailable
    \/ AskWithdrawalAvailable

SpecCalls == InitCalls /\ [][NextCalls]_vars

----------------------------------------------------------------------------
(* C14: retrieve_btc_status_v2 answers with the first that applies of      *)
(* WillReimburse (the block index is a key of pending_reimbursements),     *)
(* Reimbursed (a key of reimbursed_transactions), Pending, Signing or      *)
(* Sending (requests_in_flight), Submitted, AmountTooLow or Confirmed      *)
(* (finalized_requests), Unknown; retrieve_btc_status answers the same     *)
(* way without the two reimbursement cases.                                *)

SubmittedWith(s, block_index) ==
    {tx \in Range(s.submitted_transactions) :
        \E i \in DOMAIN tx.requests : tx.requests[i].block_index = block_index}

FinalizedWith(s, block_index) ==
    {f \in Range(s.finalized_requests) : f.request.block_index = block_index}

\* The rank of the first case that applies to the block index.
RankOf(s, block_index) ==
    IF block_index \in DOMAIN s.pending_reimbursements THEN 1
    ELSE IF block_index \in DOMAIN s.reimbursed_transactions THEN 2
    ELSE IF block_index \in BlocksOf(s.pending_retrieve_btc_requests) THEN 3
    ELSE IF block_index \in DOMAIN s.requests_in_flight THEN 4
    ELSE IF SubmittedWith(s, block_index) # {} THEN 5
    ELSE IF FinalizedWith(s, block_index) # {} THEN 6
    ELSE 7

\* The answer is the one of the case of the given rank.
AnswerOfRank(s, block_index, rank, kind, txid, deposit) ==
    /\ rank = 1 => /\ kind = "WillReimburse"
                   /\ deposit = <<s.pending_reimbursements[block_index]>>
    /\ rank = 2 => /\ kind = "Reimbursed"
                   /\ deposit = <<s.reimbursed_transactions[block_index]>>
    /\ rank = 3 => kind = "Pending"
    /\ rank = 4 => /\ kind \in {"Signing", "Sending"}
                   /\ kind = s.requests_in_flight[block_index].kind
                   /\ kind = "Sending" => txid = s.requests_in_flight[block_index].txid
    /\ rank = 5 => /\ kind = "Submitted"
                   /\ \E tx \in SubmittedWith(s, block_index) : txid = tx.txid
    /\ rank = 6 => /\ kind \in {"AmountTooLow", "Confirmed"}
                   /\ \E f \in FinalizedWith(s, block_index) :
                         /\ kind = f.state.kind
                         /\ kind = "Confirmed" => txid = f.state.txid
    /\ rank = 7 => kind = "Unknown"
    /\ rank > 2 => deposit = <<>>

\* The rank among the cases of retrieve_btc_status.
RankWithoutReimbursement(s, block_index) ==
    RankOf([s EXCEPT !.pending_reimbursements = EmptyMap,
                     !.reimbursed_transactions = EmptyMap], block_index)

\* C14: every answer of retrieve_btc_status_v2 and of retrieve_btc_status
\* is the one of the first case that applies.
C14_StatusPriority ==
    /\ last.op = "retrieve_btc_status_v2" =>
           AnswerOfRank(state, last.arg.arg, RankOf(state, last.arg.arg),
                        last.arg.answer.kind, last.arg.answer.txid,
                        last.arg.answer.deposit)
    /\ last.op = "retrieve_btc_status" =>
           AnswerOfRank(state, last.arg.arg,
                        RankWithoutReimbursement(state, last.arg.arg),
                        last.arg.answer.kind, last.arg.answer.txid, <<>>)

\* The block index asked for is recorded in every collection.
C14_Witness ==
    /\ last.op = "retrieve_btc_status_v2"
    /\ last.arg.answer.kind = "WillReimburse"
    /\ last.arg.arg \in DOMAIN state.reimbursed_transactions
    /\ last.arg.arg \in BlocksOf(state.pending_retrieve_btc_requests)
    /\ last.arg.arg \in DOMAIN state.requests_in_flight
    /\ SubmittedWith(state, last.arg.arg) # {}
    /\ FinalizedWith(state, last.arg.arg) # {}

----------------------------------------------------------------------------
(* C15: push_back_pending_request appends the request as the last element  *)
(* of pending_retrieve_btc_requests, increases tokens_burned by its        *)
(* amount, adds check_fee to owed_kyt_amount[kyt_provider] when the        *)
(* request has a kyt_provider, and records its block_index under the       *)
(* request's account in retrieve_btc_account_to_block_indices.             *)

Owed(s, provider) ==
    IF provider \in DOMAIN s.owed_kyt_amount THEN s.owed_kyt_amount[provider] ELSE 0

BlocksOfAccount(s, account) ==
    IF account \in DOMAIN s.retrieve_btc_account_to_block_indices
    THEN Range(s.retrieve_btc_account_to_block_indices[account])
    ELSE {}

\* The queue and the counters after the enqueue of last'.arg.
EnqueueCounts ==
    LET request == last'.arg
    IN  /\ state'.pending_retrieve_btc_requests
               = Append(state.pending_retrieve_btc_requests, request)
        /\ state'.tokens_burned = state.tokens_burned + request.amount
        /\ \A p \in Principals :
              Owed(state', p) = Owed(state, p)
                  + (IF request.kyt_provider = <<p>> THEN state.check_fee ELSE 0)

\* C15 as stated.
C15_EnqueueRecordsAccount ==
    [][last'.op = "push_back_pending_request" /\ last'.ok =>
          /\ EnqueueCounts
          /\ last'.arg.reimbursement_account # <<>> =>
                 last'.arg.block_index
                     \in BlocksOfAccount(state', last'.arg.reimbursement_account[1])]_vars

----------------------------------------------------------------------------
(* C16: no operation lowers tokens_minted, tokens_burned or                *)
(* finalized_requests_count, and finalize_transaction raises               *)
(* finalized_requests_count by the number of requests of the transaction   *)
(* it finalizes.                                                           *)

RequestsOfTxid(s, txid) ==
    {tx.requests : tx \in {x \in Range(s.submitted_transactions)
                                     \cup Range(s.stuck_transactions) :
                              x.txid = txid}}

\* C16: no step lowers one of the three counters; a finalize_transaction
\* step adds the number of requests of the transaction to
\* finalized_requests_count.
C16_CountersNeverDecrease ==
    [][/\ state'.tokens_minted >= state.tokens_minted
       /\ state'.tokens_burned >= state.tokens_burned
       /\ state'.finalized_requests_count >= state.finalized_requests_count
       /\ last'.op = "finalize_transaction" /\ last'.ok =>
              \A requests \in RequestsOfTxid(state, last'.arg.txid) :
                  state'.finalized_requests_count
                      = state.finalized_requests_count + Len(requests)]_vars

\* A transaction of two requests was finalized after a hundred others.
C16_Witness ==
    /\ last.op = "finalize_transaction"
    /\ last.ok
    /\ state.finalized_requests_count = MAX_FINALIZED_REQUESTS + 2

----------------------------------------------------------------------------
(* C17: finalized_requests never holds more than MAX_FINALIZED_REQUESTS    *)
(* entries, also after a transaction of more requests than that is         *)
(* finalized; an entry pushed onto the full buffer evicts the oldest one,  *)
(* so the buffer holds the most recently finalized requests in the order   *)
(* of their finalization.                                                  *)

LastOf(seq, n) ==
    IF Len(seq) <= n THEN seq ELSE SubSeq(seq, Len(seq) - n + 1, Len(seq))

ConfirmedEntries(requests, txid) ==
    [i \in DOMAIN requests |-> [request |-> requests[i], state |-> Confirmed(txid)]]

\* C17: the buffer never holds more than MAX_FINALIZED_REQUESTS entries;
\* after a finalization it holds the last MAX_FINALIZED_REQUESTS of the
\* entries it held followed by the new ones.
C17_FinalizedBounded ==
    /\ [](Len(state.finalized_requests) <= MAX_FINALIZED_REQUESTS)
    /\ [][last'.op = "finalize_transaction" /\ last'.ok =>
              \A requests \in RequestsOfTxid(state, last'.arg.txid) :
                  state'.finalized_requests
                      = LastOf(state.finalized_requests
                                   \o ConfirmedEntries(requests, last'.arg.txid),
                               MAX_FINALIZED_REQUESTS)]_vars

\* The transaction of 101 requests was finalized: the buffer holds the
\* last hundred of them.
C17_Witness ==
    /\ last.op = "finalize_transaction"
    /\ last.ok
    /\ last.arg.txid = BigTransaction.txid
    /\ Len(state.finalized_requests) = MAX_FINALIZED_REQUESTS
    /\ state.finalized_requests[1].request = BigTransaction.requests[2]

----------------------------------------------------------------------------
(* C18: can_form_a_batch(min_pending, now) is true exactly when the queue  *)
(* holds at least min_pending requests, or the oldest pending request has  *)
(* now - received_at > max_time_in_queue_nanos, or a submission time is    *)
(* recorded and the newest pending request has received_at -               *)
(* last_transaction_submission_time_ns > max_time_in_queue_nanos, where a  *)
(* difference that would be negative counts as 0.                          *)

EnoughPending(s, min_pending) == Len(s.pending_retrieve_btc_requests) >= min_pending

\* A difference that saturates at 0 exceeds a bound that is not negative
\* exactly when the minuend exceeds the sum.
OldestWaitedLong(s, now) ==
    /\ s.pending_retrieve_btc_requests # <<>>
    /\ now > s.pending_retrieve_btc_requests[1].received_at + s.max_time_in_queue_nanos

NewestLongAfterSubmission(s) ==
    /\ s.pending_retrieve_btc_requests # <<>>
    /\ s.last_transaction_submission_time_ns # <<>>
    /\ LastReceivedAt(s)
           > s.last_transaction_submission_time_ns[1] + s.max_time_in_queue_nanos

\* C18: the answer of can_form_a_batch is true exactly when one of the
\* three conditions holds.
C18_CanFormABatch ==
    last.op = "can_form_a_batch" =>
        (last.arg.answer
            <=> \/ EnoughPending(state, last.arg.arg.min_pending)
                \/ OldestWaitedLong(state, last.arg.arg.now)
                \/ NewestLongAfterSubmission(state))

\* The answer is true for the time since the last submission alone, and
\* now is before the oldest request was received.
C18_Witness ==
    /\ last.op = "can_form_a_batch"
    /\ last.arg.answer
    /\ ~EnoughPending(state, last.arg.arg.min_pending)
    /\ state.pending_retrieve_btc_requests # <<>>
    /\ last.arg.arg.now < state.pending_retrieve_btc_requests[1].received_at
    /\ NewestLongAfterSubmission(state)

----------------------------------------------------------------------------
(* C19: after schedule_deposit_reimbursement(b, task) the status of b is   *)
(* WillReimburse(task); after the reimbursement of b is completed with     *)
(* mint_block_index m it is Reimbursed with the fields of the task and m;  *)
(* no burn block index is a key of both pending_reimbursements and         *)
(* reimbursed_transactions.                                                *)

StatusAfterSchedule ==
    last'.op = "schedule_deposit_reimbursement" /\ last'.ok =>
        retrieve_btc_status_v2(state', last'.arg.burn_block_index)
            = WillReimburse(last'.arg.task)

StatusAfterCompletion ==
    last'.op = "complete_reimbursement" /\ last'.ok =>
        LET task == state.pending_reimbursements[last'.arg.burn_block_index]
            status == retrieve_btc_status_v2(state', last'.arg.burn_block_index)
        IN  /\ status.kind = "Reimbursed"
            /\ Len(status.deposit) = 1
            /\ status.deposit[1].account = task.account
            /\ status.deposit[1].amount = task.amount
            /\ status.deposit[1].reason = task.reason
            /\ status.deposit[1].mint_block_index = last'.arg.mint_block_index

----------------------------------------------------------------------------
(* C20: schedule_deposit_reimbursement(b, task) adds the fee to            *)
(* owed_kyt_amount[provider] only for the reason                           *)
(* TaintedDestination{provider, fee} with fee > 0 and leaves               *)
(* owed_kyt_amount as it is otherwise, appends b to the list of            *)
(* task.account in retrieve_btc_account_to_block_indices (a new list when  *)
(* the account has none), and inserts b -> task into                       *)
(* pending_reimbursements; retrieve_btc_status_v2_by_account(task.account) *)
(* then lists b with the status WillReimburse(task).                       *)

ListOfAccount(s, account) ==
    IF account \in DOMAIN s.retrieve_btc_account_to_block_indices
    THEN s.retrieve_btc_account_to_block_indices[account]
    ELSE <<>>

ScheduleEffects ==
    LET b == last'.arg.burn_block_index
        task == last'.arg.task
        charged == task.reason.kind = "TaintedDestination" /\ task.reason.kyt_fee > 0
        listed == retrieve_btc_status_v2_by_account(state', <<task.account>>, "bob")
    IN  /\ charged =>
              /\ Owed(state', task.reason.kyt_provider)
                     = Owed(state, task.reason.kyt_provider) + task.reason.kyt_fee
              /\ \A p \in DOMAIN state'.owed_kyt_amount \ {task.reason.kyt_provider} :
                    /\ p \in DOMAIN state.owed_kyt_amount
                    /\ state'.owed_kyt_amount[p] = state.owed_kyt_amount[p]
        /\ ~charged => state'.owed_kyt_amount = state.owed_kyt_amount
        /\ ListOfAccount(state', task.account)
               = Append(ListOfAccount(state, task.account), b)
        /\ \A a \in Accounts \ {task.account} :
              ListOfAccount(state', a) = ListOfAccount(state, a)
        /\ DOMAIN state'.pending_reimbursements
               = DOMAIN state.pending_reimbursements \cup {b}
        /\ state'.pending_reimbursements[b] = task
        /\ \A k \in DOMAIN state.pending_reimbursements \ {b} :
              state'.pending_reimbursements[k] = state.pending_reimbursements[k]
        /\ \E i \in DOMAIN listed :
              listed[i] = BtcRetrievalStatusV2(b, WillReimburse(task))

\* C20: every schedule_deposit_reimbursement has the effects above.
C20_ScheduleReimbursement ==
    [][last'.op = "schedule_deposit_reimbursement" /\ last'.ok
           => ScheduleEffects]_vars

\* A second reimbursement with a fee was scheduled for an account.
C20_Witness ==
    /\ last.op = "schedule_deposit_reimbursement"
    /\ last.ok
    /\ last.arg.task.reason = TaintedDestination("kyt", 1)
    /\ Owed(state, "kyt") = 2
    /\ Len(ListOfAccount(state, last.arg.task.account)) >= 2

----------------------------------------------------------------------------
(* C21: distribute_kyt_fee(provider, amount), with balance the amount owed *)
(* to the provider (0 without an entry): amount = 0 returns Ok and changes *)
(* nothing; an amount up to the balance returns Ok and leaves              *)
(* balance - amount owed, without an entry when that is 0; a larger amount *)
(* returns Overdraft(amount - balance) as a value and leaves no entry of   *)
(* the provider.  The entries of the other providers are as before.        *)

DistributeEffects ==
    LET provider == last'.arg.provider
        amount == last'.arg.amount
        result == last'.arg.result
        balance == Owed(state, provider)
    IN  /\ last'.ok
        /\ amount = 0 => result = OkUnit /\ state' = state
        /\ amount > 0 /\ amount <= balance =>
              /\ result = OkUnit
              /\ Owed(state', provider) = balance - amount
              /\ balance = amount => provider \notin DOMAIN state'.owed_kyt_amount
        /\ amount > balance =>
              /\ result = Overdraft(amount - balance)
              /\ provider \notin DOMAIN state'.owed_kyt_amount
        /\ \A p \in Principals \ {provider} :
              /\ p \in DOMAIN state'.owed_kyt_amount <=> p \in DOMAIN state.owed_kyt_amount
              /\ Owed(state', p) = Owed(state, p)
        /\ state' = [state EXCEPT !.owed_kyt_amount = state'.owed_kyt_amount]

\* C21: every distribute_kyt_fee has the effects above.
C21_DistributeKytFee ==
    [][last'.op = "distribute_kyt_fee" => DistributeEffects]_vars

\* An overdraft of a provider while another provider is owed a fee.
C21_Witness ==
    /\ last.op = "distribute_kyt_fee"
    /\ last.arg.result.kind = "Overdraft"
    /\ last.arg.result.amount = 1
    /\ last.arg.amount = 3
    /\ DOMAIN state.owed_kyt_amount = Principals \ {last.arg.provider}

----------------------------------------------------------------------------
(* C22: owed_kyt_amount never holds an entry whose value is 0, whatever    *)
(* push_back_pending_request with a kyt_provider,                          *)
(* schedule_deposit_reimbursement, distribute_kyt_fee and upgrade (which   *)
(* may change check_fee) were called.                                      *)

\* C22 as stated.
C22_NoZeroOwed ==
    \A p \in DOMAIN state.owed_kyt_amount : state.owed_kyt_amount[p] > 0

----------------------------------------------------------------------------
(* The lifecycle of the minter: it is installed with InitArgs, upgraded    *)
(* with UpgradeArgs, and an Init event met again during replay is applied  *)
(* with reinit.  Each of the three validates the resulting configuration   *)
(* before it becomes the current state; a trap leaves the state as it was. *)
(* Between upgrades update_balance suspends UTXOs.                         *)

SuspendedReasons == {"ValueTooSmall", "Quarantined"}

InstallArgs ==
    {[InitArgs EXCEPT !.retrieve_btc_min_amount = retrieve_btc_min_amount,
                      !.check_fee = check_fee,
                      !.kyt_fee = kyt_fee,
                      !.min_confirmations = min_confirmations] :
        retrieve_btc_min_amount \in {1, 3},
        check_fee \in {<<>>, <<0>>, <<2>>},
        kyt_fee \in {<<>>, <<3>>},
        min_confirmations \in {<<>>, <<3>>}}

Overrides ==
    {[NoOverrides EXCEPT !.retrieve_btc_min_amount = retrieve_btc_min_amount,
                         !.check_fee = check_fee,
                         !.kyt_fee = kyt_fee,
                         !.min_confirmations = min_confirmations] :
        retrieve_btc_min_amount \in {<<>>, <<1>>, <<3>>},
        check_fee \in {<<>>, <<0>>, <<2>>},
        kyt_fee \in {<<>>, <<3>>},
        min_confirmations \in {<<>>, <<2>>, <<7>>}}

\* init: the state built from the arguments is validated before it is kept.
InitConfig ==
    /\ state \in {From(args) : args \in {a \in InstallArgs : validate_config(From(a)).ok}}
    /\ last = Call("init", 0, TRUE, "none")
    /\ NoReplay
    /\ submission = Idle
    /\ fetched = [a \in Accounts |-> {}]
    /\ spent_on_chain = {}
    /\ ledger_next_block = 1
    /\ next_txid = 1
    /\ clock = 0

Configures(op, arg, r) ==
    /\ Returns(op, arg, r)
    /\ UNCHANGED <<replayed, initialized>>
    /\ UNCHANGED <<submission, fetched, spent_on_chain, ledger_next_block,
                   next_txid, clock>>

\* post_upgrade: the overrides are applied, then the configuration validated.
Upgrade ==
    \E args \in Overrides :
        Configures("upgrade", args, validate_config(upgrade(state, args).st))

\* An Init event of the log is applied to the state, which is then validated.
Reinit ==
    \E args \in InstallArgs :
        Configures("reinit", args, validate_config(reinit(state, args).st))

SuspendUtxo ==
    \E utxo \in AllUtxos, reason \in SuspendedReasons :
        LET account == OwnerOf(utxo.outpoint)
            r == suspend_utxo(state, utxo, account, reason, clock)
        IN  Configures("suspend_utxo",
                       [utxo |-> utxo, account |-> account, reason |-> reason,
                        result |-> r.result], r)

\* The legacy event: the UTXO is suspended under no account.
DiscardUtxoWithoutAccount ==
    \E utxo \in AllUtxos, reason \in SuspendedReasons :
        /\ \A a \in DOMAIN state.suspended_utxos.utxos :
              utxo \notin DOMAIN state.suspended_utxos.utxos[a]
        /\ Configures("discard_utxo_without_account",
                      [utxo |-> utxo, reason |-> reason],
                      discard_utxo_without_account(state, utxo, reason))

NextConfig ==
    \/ Upgrade
    \/ Reinit
    \/ SuspendUtxo
    \/ DiscardUtxoWithoutAccount

SpecConfig == InitConfig /\ [][NextConfig]_vars

----------------------------------------------------------------------------
(* C23: every UTXO of suspended_utxos (either partition) whose reason is   *)
(* ValueTooSmall has a value of at most the current check_fee, also after  *)
(* an upgrade or reinit changed check_fee.                                 *)

TooSmall(s) ==
    {e[1] : e \in {x \in Range(iter(s.suspended_utxos)) : x[2] = "ValueTooSmall"}}

\* C23 as stated: the bound holds in every state.
C23_SuspendedWithinFee == \A u \in TooSmall(state) : u.value <= state.check_fee

----------------------------------------------------------------------------
(* C24: check_fee <= retrieve_btc_min_amount after every transition, in    *)
(* particular after init, reinit and upgrade with any combination of       *)
(* retrieve_btc_min_amount, check_fee and kyt_fee; a configuration with a  *)
(* larger check_fee is rejected by a trap and never is the current state.  *)

\* C24: the current state's check_fee is at most its retrieve_btc_min_amount.
C24_FeeWithinMinAmount == state.check_fee <= state.retrieve_btc_min_amount

\* An upgrade was rejected whose legacy kyt_fee exceeded the minimum amount.
C24_Witness ==
    /\ last.op = "upgrade"
    /\ ~last.ok
    /\ last.arg.check_fee = <<>>
    /\ last.arg.kyt_fee = <<3>>
    /\ last.arg.retrieve_btc_min_amount = <<1>>
    /\ state.retrieve_btc_min_amount = 3
    /\ state.check_fee = 2

----------------------------------------------------------------------------
(* C27: across upgrades min_confirmations never increases.  An upgrade     *)
(* with min_confirmations = Some(v) sets it to v only when v is strictly   *)
(* lower than the current value; otherwise it stays as it is, and the      *)
(* other overrides of the same call are applied all the same.              *)

Override(option, current) == IF option # <<>> THEN option[1] ELSE current

UpgradeEffects ==
    LET args == last'.arg
    IN  IF last'.ok
        THEN /\ state'.min_confirmations =
                    IF args.min_confirmations # <<>>
                       /\ args.min_confirmations[1] < state.min_confirmations
                    THEN args.min_confirmations[1]
                    ELSE state.min_confirmations
             /\ state'.min_confirmations <= state.min_confirmations
             /\ state'.retrieve_btc_min_amount =
                    Override(args.retrieve_btc_min_amount, state.retrieve_btc_min_amount)
             /\ state'.check_fee =
                    Override(args.check_fee, Override(args.kyt_fee, state.check_fee))
        ELSE state' = state

\* C27: every upgrade has the effects above.
C27_MinConfirmationsNeverRaised == [][last'.op = "upgrade" => UpgradeEffects]_vars

\* An upgrade asked for 7 confirmations and a check_fee of 0: the first was
\* ignored, the second applied.
C27_Witness ==
    /\ last.op = "upgrade"
    /\ last.ok
    /\ last.arg.min_confirmations = <<7>>
    /\ last.arg.check_fee = <<0>>
    /\ last.arg.retrieve_btc_min_amount = <<1>>
    /\ state.min_confirmations = DEFAULT_MIN_CONFIRMATIONS
    /\ state.check_fee = 0
    /\ state.retrieve_btc_min_amount = 1

----------------------------------------------------------------------------
(* C25: a deposit is available for P unless the mode is ReadOnly, or       *)
(* RestrictedTo or DepositsRestrictedTo with a list that lacks P; a        *)
(* withdrawal is available for P unless the mode is ReadOnly or            *)
(* RestrictedTo with a list that lacks P.  A denial is an Err value with a *)
(* message: the check neither traps nor changes the state.                 *)

Listed(p) == \E i \in DOMAIN state.mode.allow_list : state.mode.allow_list[i] = p

DepositDenied(p) ==
    \/ state.mode.kind = "ReadOnly"
    \/ state.mode.kind = "RestrictedTo" /\ ~Listed(p)
    \/ state.mode.kind = "DepositsRestrictedTo" /\ ~Listed(p)

WithdrawalDenied(p) ==
    \/ state.mode.kind = "ReadOnly"
    \/ state.mode.kind = "RestrictedTo" /\ ~Listed(p)

AvailabilityAnswer ==
    LET p == last'.arg.arg
        answer == last'.arg.answer
        denied == IF last'.op = "is_deposit_available_for"
                  THEN DepositDenied(p) ELSE WithdrawalDenied(p)
    IN  /\ last'.ok
        /\ state' = state
        /\ IF denied THEN answer.kind = "Err" /\ answer.message # ""
           ELSE answer = Passed

\* C25: every availability check answers as above.
C25_ModeAccess ==
    [][last'.op \in {"is_deposit_available_for", "is_withdrawal_available_for"}
       => AvailabilityAnswer]_vars

\* A withdrawal was granted to a principal that is not on the list of
\* depositors.
C25_Witness ==
    /\ last.op = "is_withdrawal_available_for"
    /\ last.arg.answer = Passed
    /\ state.mode = DepositsRestrictedTo(<<"bob">>)
    /\ last.arg.arg = "alice"

----------------------------------------------------------------------------
(* C26: add_utxos(account, utxos) with no UTXO changes nothing.  Otherwise *)
(* tokens_minted grows by the sum of the values, every listed UTXO is in   *)
(* available_utxos and in utxos_state_addresses[account], its outpoint is  *)
(* mapped to the account and it is no longer in checked_utxos; UTXOs and   *)
(* accounts that the call does not name are as they were.                  *)

BucketOf(s, account) ==
    IF account \in DOMAIN s.utxos_state_addresses
    THEN s.utxos_state_addresses[account] ELSE {}

AddUtxosEffects ==
    LET account == last'.arg.account
        utxos == last'.arg.utxos
        outpoints == {u.outpoint : u \in utxos}
    IN  /\ last'.ok
        /\ utxos = {} => state' = state
        /\ utxos # {} =>
              /\ state'.tokens_minted = state.tokens_minted + SumOfValues(utxos)
              /\ \A u \in utxos :
                    /\ u \in state'.available_utxos
                    /\ u \in BucketOf(state', account)
                    /\ u.outpoint \in DOMAIN state'.outpoint_account
                    /\ state'.outpoint_account[u.outpoint] = account
                    /\ u \notin DOMAIN state'.checked_utxos
              /\ state'.available_utxos \ utxos = state.available_utxos \ utxos
              /\ BucketOf(state', account) \ utxos = BucketOf(state, account) \ utxos
              /\ \A a \in Accounts \ {account} : BucketOf(state', a) = BucketOf(state, a)
              /\ DOMAIN state'.outpoint_account \ outpoints
                    = DOMAIN state.outpoint_account \ outpoints
              /\ \A o \in DOMAIN state.outpoint_account \ outpoints :
                    state'.outpoint_account[o] = state.outpoint_account[o]
              /\ DOMAIN state'.checked_utxos = DOMAIN state.checked_utxos \ utxos
              /\ \A u \in DOMAIN state'.checked_utxos :
                    state'.checked_utxos[u] = state.checked_utxos[u]
              /\ state' = [state EXCEPT
                              !.tokens_minted = state'.tokens_minted,
                              !.available_utxos = state'.available_utxos,
                              !.utxos_state_addresses = state'.utxos_state_addresses,
                              !.outpoint_account = state'.outpoint_account,
                              !.checked_utxos = state'.checked_utxos]

\* C26: every add_utxos of a single call has the effects above.
C26_AddUtxos ==
    [][last'.op = "add_utxos" /\ last.op = "init" => AddUtxosEffects]_vars

\* Two checked UTXOs of alice were minted while bob's stayed checked.
C26_Witness ==
    /\ last.op = "add_utxos"
    /\ last.arg.utxos = {Utxo(1), Utxo(3)}
    /\ state.tokens_minted = 4
    /\ DOMAIN state.checked_utxos = {Utxo(2)}
    /\ state.available_utxos = {Utxo(1), Utxo(3)}

----------------------------------------------------------------------------
(* C28: update_median_fee_per_vbyte(samples) with at least 100 samples     *)
(* replaces last_fee_per_vbyte by the samples, sets                        *)
(* fee_based_retrieve_btc_min_amount to compute_min_withdrawal_amount(     *)
(* median, retrieve_btc_min_amount, check_fee) with median = samples[50],  *)
(* and returns max(samples[50], floor), the floor being 1500 on mainnet,   *)
(* 1000 on testnet and 0 on regtest.  With fewer samples it returns None   *)
(* and leaves both fields as they are.                                     *)

FloorOf(network) ==
    CASE network = "Mainnet" -> 1500
      [] network = "Testnet" -> 1000
      [] network = "Regtest" -> 0

\* The effects of a call whose minimum amount is computed from `median` and
\* that returns `effective`.
UpdateEffects(median, effective) ==
    LET fees == last'.arg.fees
    IN  IF Len(fees) < 100
        THEN last'.arg.result = <<>> /\ state' = state
        ELSE /\ last'.arg.result = <<effective>>
             /\ state' = [state EXCEPT
                             !.last_fee_per_vbyte = fees,
                             !.fee_based_retrieve_btc_min_amount =
                                 compute_min_withdrawal_amount(
                                     median, state.retrieve_btc_min_amount,
                                     state.check_fee)]

\* The 51st sample (index 50), where there is one.
Sample50 == IF Len(last'.arg.fees) >= 51 THEN last'.arg.fees[51] ELSE 0

\* What the estimate is once the samples are stored.
EffectiveMedian ==
    IF state.btc_network = "Regtest" THEN 5000
    ELSE IF Sample50 >= FloorOf(state.btc_network) THEN Sample50
    ELSE FloorOf(state.btc_network)

\* C28 as stated: the minimum amount is computed from samples[50], and
\* max(samples[50], floor) is returned.
C28_MedianFeeAsClaimed ==
    [][last'.op = "update_median_fee_per_vbyte"
       => UpdateEffects(Sample50,
                        IF Sample50 >= FloorOf(state.btc_network) THEN Sample50
                        ELSE FloorOf(state.btc_network))]_vars

\* C28: with at least 100 samples the call stores them and takes as median
\* max(samples[50], floor) on mainnet and testnet and 5000 on regtest; it
\* computes the minimum amount from that median and returns it.  With fewer
\* samples it returns None and changes nothing.
C28_MedianFee ==
    [][last'.op = "update_median_fee_per_vbyte"
       => UpdateEffects(EffectiveMedian, EffectiveMedian)]_vars

\* On mainnet a 51st sample of 1200 was raised to the floor.
C28_Witness ==
    /\ last.op = "update_median_fee_per_vbyte"
    /\ state.btc_network = "Mainnet"
    /\ Len(last.arg.fees) = 100
    /\ last.arg.fees[51] = 1200
    /\ last.arg.result = <<1500>>
    /\ state.fee_based_retrieve_btc_min_amount =
          compute_min_withdrawal_amount(1500, 3, 2)

----------------------------------------------------------------------------
(* Replay.  Every event that changes the state is logged, and after an     *)
(* upgrade the state is rebuilt by applying the logged events to a fresh   *)
(* state.  The event of a suspension carries no time: the replayed state   *)
(* has no last_time_checked_cache.  The rebuilt state is compared with the *)
(* state before the upgrade.                                               *)

OtherTransaction == Transaction(2, <<Request(303, 1, 0)>>, {})

\* A minter with two requests waiting and two transactions submitted.
BusyState ==
    push_submitted_transaction(
        push_submitted_transaction(
            push_back_pending_request(
                push_back_pending_request(FromInitArgs, Request(1, 2, 0)).st,
                Request(2, 1, 1)).st,
            OtherTransaction).st,
        SmallTransaction(1)).st

InitReplay ==
    /\ state \in {FromInitArgs, BusyState}
    /\ replayed = state
    /\ initialized = TRUE
    /\ last = Call("init", 0, TRUE, "none")
    /\ submission = Idle
    /\ fetched = [a \in Accounts |-> {}]
    /\ spent_on_chain = {}
    /\ ledger_next_block = 1
    /\ next_txid = 1
    /\ clock = 1

\* A call and, when it did not trap, the replay of its event.
Replays(op, arg, r, rr) ==
    /\ state' = IF r.ok THEN r.st ELSE state
    /\ replayed' = IF r.ok THEN rr ELSE replayed
    /\ last' = Call(op, arg, r.ok, "none")
    /\ UNCHANGED <<initialized, submission, fetched, spent_on_chain,
                   ledger_next_block, next_txid, clock>>

\* The event is logged when suspend_utxo returned true, and replayed by an
\* insert that has no time.
SuspendLogged ==
    \E utxo \in AllUtxos, reason \in SuspendedReasons :
        LET account == OwnerOf(utxo.outpoint)
            r == suspend_utxo(state, utxo, account, reason, clock)
        IN  Replays("suspend_utxo",
                    [utxo |-> utxo, account |-> account, reason |-> reason,
                     result |-> r.result],
                    r,
                    IF r.result
                    THEN [replayed EXCEPT !.suspended_utxos =
                              insert(@, account, utxo, reason, <<>>).su]
                    ELSE replayed)

MarkCheckedLogged ==
    \E utxo \in AllUtxos :
        LET account == OwnerOf(utxo.outpoint)
        IN  Replays("mark_utxo_checked_v2", [utxo |-> utxo, account |-> account],
                    Ok(mark_utxo_checked_v2(state, utxo, account)),
                    mark_utxo_checked_v2(replayed, utxo, account))

UpgradeLogged ==
    \E check_fee \in {<<0>>, <<2>>} :
        LET args == UpgradeArgs(<<>>, check_fee, <<>>)
        IN  Replays("upgrade", args, upgrade(state, args), upgrade(replayed, args).st)

Reverse(seq) == [i \in DOMAIN seq |-> seq[Len(seq) + 1 - i]]

\* States to compare a state with: the replayed one, the state itself, and
\* states that differ from it in one place.
Others(s) ==
    {[variation |-> "replayed", other |-> replayed],
     [variation |-> "same", other |-> s],
     [variation |-> "order of pending_retrieve_btc_requests",
      other |-> [s EXCEPT !.pending_retrieve_btc_requests = Reverse(@)]],
     [variation |-> "order of submitted_transactions",
      other |-> [s EXCEPT !.submitted_transactions = Reverse(@)]],
     [variation |-> "last_time_checked_cache",
      other |-> [s EXCEPT !.suspended_utxos.last_time_checked_cache =
                              MapInsert(@, Utxo(3), 7)]],
     [variation |-> "tokens_minted", other |-> [s EXCEPT !.tokens_minted = @ + 1]],
     [variation |-> "mode", other |-> [s EXCEPT !.mode = ReadOnly]],
     [variation |-> "btc_network", other |-> [s EXCEPT !.btc_network = "Testnet"]],
     [variation |-> "ecdsa_key_name", other |-> [s EXCEPT !.ecdsa_key_name = "key_2"]],
     [variation |-> "min_confirmations",
      other |-> [s EXCEPT !.min_confirmations = @ + 1]],
     [variation |-> "finalized_requests",
      other |-> [s EXCEPT !.finalized_requests =
                    Append(@, [request |-> Request(304, 1, 0), state |-> AmountTooLow])]],
     [variation |-> "requests_in_flight",
      other |-> [s EXCEPT !.requests_in_flight = MapInsert(@, 304, Signing)]],
     [variation |-> "available_utxos",
      other |-> [s EXCEPT !.available_utxos = @ \cup {Utxo(3)}]],
     [variation |-> "utxos_state_addresses",
      other |-> [s EXCEPT !.utxos_state_addresses = BucketInsert(@, "alice", Utxo(3))]],
     [variation |-> "suspended_utxos::utxos_without_account",
      other |-> [s EXCEPT !.suspended_utxos.utxos_without_account =
                              MapInsert(@, Utxo(3), "Quarantined")]],
     [variation |-> "suspended_utxos::utxos",
      other |-> [s EXCEPT !.suspended_utxos =
                              insert(@, "alice", Utxo(3), "Quarantined", <<>>).su]],
     [variation |-> "checked_utxos",
      other |-> [s EXCEPT !.checked_utxos = MapInsert(@, Utxo(3), CheckedUtxo("Clean"))]],
     [variation |-> "check_fee", other |-> [s EXCEPT !.check_fee = @ + 1]],
     [variation |-> "owed_kyt_amount",
      other |-> [s EXCEPT !.owed_kyt_amount = EntryAdd(@, "kyt", 1)]],
     [variation |-> "btc_checker_principal",
      other |-> [s EXCEPT !.btc_checker_principal = <<"kyt2">>]],
     [variation |-> "retrieve_btc_account_to_block_indices",
      other |-> [s EXCEPT !.retrieve_btc_account_to_block_indices =
                              EntryPush(@, "alice", 304)]],
     [variation |-> "submitted_transactions",
      other |-> [s EXCEPT !.submitted_transactions =
                              Append(@, Transaction(4, <<Request(304, 1, 0)>>, {}))]],
     [variation |-> "stuck_transactions",
      other |-> [s EXCEPT !.stuck_transactions =
                              Append(@, Transaction(4, <<Request(304, 1, 0)>>, {}))]],
     [variation |-> "pending_retrieve_btc_requests",
      other |-> [s EXCEPT !.pending_retrieve_btc_requests =
                              Append(@, Request(304, 1, 2))]],
     [variation |-> "replacement_txid",
      other |-> [s EXCEPT !.replacement_txid = MapInsert(@, 4, 5)]],
     [variation |-> "rev_replacement_txid",
      other |-> [s EXCEPT !.rev_replacement_txid = MapInsert(@, 5, 4)]]}

AskSemanticallyEq ==
    \E o \in Others(state) :
        Answers("check_semantically_eq", o, check_semantically_eq(state, o.other))

NextReplay ==
    \/ SuspendLogged
    \/ MarkCheckedLogged
    \/ UpgradeLogged
    \/ AskSemanticallyEq

SpecReplay == InitReplay /\ [][NextReplay]_vars

----------------------------------------------------------------------------
(* C29: the state rebuilt by applying again, to a fresh state, the         *)
(* transitions that led to a state S is semantically equal to S, although  *)
(* it has no last_time_checked_cache.  check_semantically_eq is Ok for two *)
(* states that differ only in the order of submitted_transactions, in the  *)
(* order of pending_retrieve_btc_requests or in last_time_checked_cache,   *)
(* and is an Err when a compared field differs.                            *)

ComparedFields ==
    {"btc_network", "ecdsa_key_name", "min_confirmations", "finalized_requests",
     "requests_in_flight", "available_utxos", "utxos_state_addresses",
     "checked_utxos", "check_fee", "owed_kyt_amount", "btc_checker_principal",
     "retrieve_btc_account_to_block_indices", "stuck_transactions",
     "replacement_txid", "rev_replacement_txid"}

Occurrences(seq, x) == Cardinality({i \in DOMAIN seq : seq[i] = x})

SameUpToOrder(a, b) ==
    \A x \in Range(a) \cup Range(b) : Occurrences(a, x) = Occurrences(b, x)

SemanticallyEq(s, other) ==
    /\ \A field \in ComparedFields : s[field] = other[field]
    /\ s.suspended_utxos.utxos_without_account
          = other.suspended_utxos.utxos_without_account
    /\ s.suspended_utxos.utxos = other.suspended_utxos.utxos
    /\ SameUpToOrder(s.submitted_transactions, other.submitted_transactions)
    /\ SameUpToOrder(s.pending_retrieve_btc_requests,
                     other.pending_retrieve_btc_requests)

ComparisonAnswer ==
    LET other == last'.arg.arg.other
        answer == last'.arg.answer
    IN  IF SemanticallyEq(state, other) THEN answer = Passed
        ELSE answer.kind = "Err" /\ answer.message # ""

----------------------------------------------------------------------------
(* The callers of the cell.  init installs the state with replace_state;   *)
(* afterwards the state is read, mutated, taken and replaced.              *)

\* The content of __STATE.
Cell == IF initialized THEN <<state>> ELSE <<>>

InitCell ==
    /\ state = FromInitArgs
    /\ initialized = TRUE
    /\ replayed = FromInitArgs
    /\ last = Call("replace_state", 0, TRUE, "none")
    /\ submission = Idle
    /\ fetched = [a \in Accounts |-> {}]
    /\ spent_on_chain = {}
    /\ ledger_next_block = 1
    /\ next_txid = 1
    /\ clock = 0

\* The cell after a call; `state` keeps the value that was moved out of it.
Stores(op, arg, r) ==
    /\ initialized' = (r.cell # <<>>)
    /\ state' = IF r.cell # <<>> THEN r.cell[1] ELSE state
    /\ last' = Call(op, arg, r.ok, "none")
    /\ UNCHANGED <<replayed, submission, fetched, spent_on_chain,
                   ledger_next_block, next_txid, clock>>

TakeState == Stores("take_state", 0, take_state(Cell))

\* f reads the mode and the check_fee.
ReadState ==
    LET r == read_state(Cell)
    IN  Stores("read_state",
               IF r.ok THEN [mode |-> r.cell[1].mode, check_fee |-> r.cell[1].check_fee]
               ELSE 0,
               r)

\* f is an upgrade of the check_fee.
MutateState ==
    \E check_fee \in {<<0>>, <<2>>} :
        LET args == UpgradeArgs(<<>>, check_fee, <<>>)
        IN  Stores("mutate_state", args,
                   mutate_state(Cell, upgrade(state, args).st))

ReplaceState ==
    \E s \in ModeStates :
        Stores("replace_state", s.mode, replace_state(Cell, s))

NextCell ==
    \/ TakeState
    \/ ReadState
    \/ MutateState
    \/ ReplaceState

SpecCell == InitCell /\ [][NextCell]_vars

----------------------------------------------------------------------------
(* C30: once the cell was initialized with replace_state, no sequence of   *)
(* take_state, mutate_state, read_state and replace_state lets a caller    *)
(* find the state absent: read_state and mutate_state never panic with     *)
(* 'State not initialized!'.                                               *)

\* C30 as stated: the cell always holds a state and no read or mutation
\* panicked.
C30_NeverAbsent ==
    /\ initialized
    /\ last.op \in {"read_state", "mutate_state"} => last.ok

\* C30: read_state, mutate_state and replace_state leave a state in the
\* cell; take_state empties it, and until the next replace_state every
\* read_state, mutate_state and take_state panics.
C30_AbsentAfterTake ==
    [][/\ last'.op \in {"read_state", "mutate_state", "take_state"}
          => (last'.ok <=> initialized)
       /\ last'.op = "replace_state" => last'.ok
       /\ initialized' <=> \/ last'.op = "replace_state"
                           \/ initialized /\ last'.op # "take_state"
       /\ last'.op = "read_state" => state' = state]_vars

\* A read panicked: the state had been taken.
C30_Witness ==
    /\ last.op = "read_state"
    /\ ~last.ok
    /\ ~initialized

----------------------------------------------------------------------------
(* C39: in every mode, a principal for which is_deposit_available_for is   *)
(* Ok also gets Ok from is_withdrawal_available_for: no mode admits a      *)
(* deposit of a principal and refuses the same principal a withdrawal.     *)

C39_DepositImpliesWithdrawal ==
    /\ \A p \in Callers :
          is_deposit_available_for(state.mode, p) = Passed
              => is_withdrawal_available_for(state.mode, p) = Passed
    /\ (last.op = "is_deposit_available_for" /\ last.arg.answer = Passed)
          => is_withdrawal_available_for(state.mode, last.arg.arg) = Passed

\* A deposit was granted to a principal on the list of a restricted minter.
C39_Witness ==
    /\ last.op = "is_deposit_available_for"
    /\ last.arg.answer = Passed
    /\ last.arg.arg = "alice"
    /\ state.mode = RestrictedTo(<<"bob", "alice">>)

----------------------------------------------------------------------------
(* C37: every transaction of stuck_transactions has a replacement edge,    *)
(* and find_last_replacement_tx of its txid is the txid of a transaction   *)
(* of submitted_transactions; find_last_replacement_tx answers None        *)
(* exactly for the txids that have no replacement.                         *)

\* The txids given out so far, and the next one.
KnownTxids == 1..next_txid

----------------------------------------------------------------------------
(* C38: the walks along the replacement edges end after at most as many    *)
(* steps as there are edges: those of longest_resubmission_chain_size      *)
(* along rev_replacement_txid, that of find_last_replacement_tx along      *)
(* replacement_txid and the two loops of cleanup_tx_replacement_chain.     *)
(* longest_resubmission_chain_size is the largest number of                *)
(* rev_replacement_txid steps from a submitted transaction, 0 without one. *)

\* The number of transactions that the edges of map lead to from txid.
StepsFrom(map, txid) == Cardinality(ReachableFrom(map, txid, {}))

\* The txids that the two loops of cleanup_tx_replacement_chain collect.
CollectedFrom(s, txid) ==
    LET a == cleanup_newer(s.replacement_txid, s.rev_replacement_txid, txid, {})
        b == cleanup_older(a.repl, a.rev, txid, a.txids)
    IN  [newer |-> a.txids, older |-> b.txids \ a.txids]

----------------------------------------------------------------------------
(* The registry of suspended UTXOs on its own: the four operations that    *)
(* change it, with any account, UTXO, reason and time.  A debug build      *)
(* checks the assertion of insert_without_account, a release build does    *)
(* not: both are followed.                                                 *)

RegistryUtxos == {Utxo(1), Utxo(2)}

\* The times a caller passes to insert: none or one of two instants.
RegistryTimes == {<<>>, <<1>>, <<2>>}

InitSuspended ==
    /\ state = FromInitArgs
    /\ last = Call("init", 0, TRUE, "none")
    /\ NoReplay
    /\ submission = Idle
    /\ fetched = [a \in Accounts |-> {}]
    /\ spent_on_chain = {}
    /\ ledger_next_block = 1
    /\ next_txid = 1
    /\ clock = 0

\* An operation of the registry: it panics or leaves the registry su.
Registers(op, arg, ok, su) ==
    /\ state' = IF ok THEN [state EXCEPT !.suspended_utxos = su] ELSE state
    /\ last' = Call(op, arg, ok, "none")
    /\ UNCHANGED <<replayed, initialized>>
    /\ UNCHANGED <<submission, fetched, spent_on_chain, ledger_next_block,
                   next_txid, clock>>

Insert ==
    \E account \in Accounts, utxo \in RegistryUtxos,
       reason \in SuspendedReasons, now \in RegistryTimes :
        LET r == insert(state.suspended_utxos, account, utxo, reason, now)
        IN  Registers("insert",
                      [account |-> account, utxo |-> utxo, reason |-> reason,
                       now |-> now, result |-> r.result],
                      TRUE, r.su)

InsertWithoutAccount ==
    \E utxo \in RegistryUtxos, reason \in SuspendedReasons,
       debug_assertions \in BOOLEAN :
        Registers("insert_without_account",
                  [utxo |-> utxo, reason |-> reason,
                   debug_assertions |-> debug_assertions],
                  debug_assertions => in_no_account(state.suspended_utxos, utxo),
                  insert_without_account(state.suspended_utxos, utxo, reason))

Remove ==
    \E account \in Accounts, utxo \in RegistryUtxos :
        Registers("remove", [account |-> account, utxo |-> utxo], TRUE,
                  remove(state.suspended_utxos, account, utxo))

RemoveWithoutAccount ==
    \E utxo \in RegistryUtxos :
        Registers("remove_without_account", [utxo |-> utxo], TRUE,
                  remove_without_account(state.suspended_utxos, utxo))

NextSuspended ==
    \/ Insert
    \/ InsertWithoutAccount
    \/ Remove
    \/ RemoveWithoutAccount

SpecSuspended == InitSuspended /\ [][NextSuspended]_vars

----------------------------------------------------------------------------
(* C33: insert(account, utxo, reason, now) sets the time of the last check *)
(* of utxo to now when now is given.  When (account, utxo) is stored with  *)
(* the same reason it returns false and leaves both partitions as they     *)
(* were; otherwise it removes the entry of utxo without account, stores    *)
(* reason under utxos[account][utxo], over a different reason if there is  *)
(* one, and returns true.                                                  *)

\* The reason stored for the UTXO under the account, as an option.
EntryOf(su, account, utxo) ==
    IF account \in DOMAIN su.utxos /\ utxo \in DOMAIN su.utxos[account]
    THEN <<su.utxos[account][utxo]>> ELSE <<>>

InsertEffects ==
    LET a == last'.arg
        before == state.suspended_utxos
        after == state'.suspended_utxos
    IN  /\ last'.ok
        /\ after.last_time_checked_cache =
              IF a.now # <<>>
              THEN MapInsert(before.last_time_checked_cache, a.utxo, a.now[1])
              ELSE before.last_time_checked_cache
        /\ IF EntryOf(before, a.account, a.utxo) = <<a.reason>>
           THEN /\ a.result = FALSE
                /\ after.utxos = before.utxos
                /\ after.utxos_without_account = before.utxos_without_account
           ELSE /\ a.result = TRUE
                /\ after.utxos_without_account =
                      MapRemove(before.utxos_without_account, a.utxo)
                /\ EntryOf(after, a.account, a.utxo) = <<a.reason>>
                /\ \A account \in Accounts, utxo \in RegistryUtxos :
                      <<account, utxo>> # <<a.account, a.utxo>>
                          => EntryOf(after, account, utxo)
                                = EntryOf(before, account, utxo)

C33_Insert == [][last'.op = "insert" => InsertEffects]_vars

\* The same reason was inserted again with a time: nothing but the time of
\* the last check changed.
C33_Witness ==
    /\ last.op = "insert"
    /\ last.arg.result = FALSE
    /\ last.arg.now = <<2>>
    /\ state.suspended_utxos.last_time_checked_cache[last.arg.utxo] = 2
    /\ DOMAIN state.suspended_utxos.utxos_without_account # {}

----------------------------------------------------------------------------
(* C36: in every state of the registry that insert, insert_without_account,*)
(* remove and remove_without_account lead to, a UTXO is stored under at    *)
(* most one account, so that after remove_without_account, which stops at  *)
(* the first account that holds the UTXO, no partition holds it.           *)

HoldersOf(su, utxo) ==
    {a \in DOMAIN su.utxos : utxo \in DOMAIN su.utxos[a]}

C36_OneAccountPerUtxo ==
    /\ \A utxo \in RegistryUtxos :
          Cardinality(HoldersOf(state.suspended_utxos, utxo)) <= 1
    /\ last.op = "remove_without_account"
          => /\ HoldersOf(state.suspended_utxos, last.arg.utxo) = {}
             /\ last.arg.utxo \notin DOMAIN state.suspended_utxos.utxos_without_account

\* remove_without_account has left the UTXO with the second account.
C36_LeftWithAnAccount ==
    /\ last.op = "remove_without_account"
    /\ HoldersOf(state.suspended_utxos, last.arg.utxo) = {"bob"}

----------------------------------------------------------------------------
(* C40: in every state of the registry that the four operations lead to,   *)
(* no UTXO is stored both without account and under an account, so that    *)
(* iter yields no UTXO of an account twice and num_utxos counts none       *)
(* twice.                                                                  *)

\* The UTXOs that the registry holds, in either partition.
SuspendedIn(su) ==
    DOMAIN su.utxos_without_account
        \cup {u \in RegistryUtxos : HoldersOf(su, u) # {}}

C40_OnePartitionPerUtxo ==
    LET su == state.suspended_utxos
        all == iter(su)
    IN  /\ \A utxo \in DOMAIN su.utxos_without_account : HoldersOf(su, utxo) = {}
        /\ \A i, j \in DOMAIN all :
              (all[i][1] = all[j][1] /\ all[i][1] \in DOMAIN su.utxos_without_account)
                  => i = j
        /\ Cardinality(HoldersOf(su, Utxo(1))) <= 1
            /\ Cardinality(HoldersOf(su, Utxo(2))) <= 1
                => num_utxos(su) = Cardinality(SuspendedIn(su))

----------------------------------------------------------------------------
(* Deposits: update_balance classifies the UTXOs it observes at the         *)
(* address of an account and, for a processable one, suspends it, marks it *)
(* as checked, mints it or records that the outcome of the mint is         *)
(* unknown.  The legacy events of older logs, a UTXO marked as checked or  *)
(* discarded without account, are applied as well.  Time is in hours.      *)

DepositUtxos == {Utxo(1), Utxo(3)}

DepositTimes == <<0, 1, 24>>

Depositor == "alice"

\* A minter without deposits, and one where the second UTXO was spent by a
\* transaction finalized while the update_balance call of its owner was
\* suspended.
DepositStarts ==
    LET fresh == From([InitArgs EXCEPT !.check_fee = <<2>>])
    IN  {fresh,
         [fresh EXCEPT !.finalized_utxos = MapInsert(@, Depositor, {Utxo(3)})]}

InitDeposits ==
    /\ state \in DepositStarts
    /\ last = Call("init", 0, TRUE, "none")
    /\ NoReplay
    /\ submission = Idle
    /\ fetched = [a \in Accounts |-> {}]
    /\ spent_on_chain = {}
    /\ ledger_next_block = 1
    /\ next_txid = 1
    /\ clock = DepositTimes[1]

Deposits(op, arg, r) ==
    /\ Returns(op, arg, r)
    /\ UNCHANGED <<replayed, initialized>>
    /\ UNCHANGED <<submission, fetched, spent_on_chain, ledger_next_block,
                   next_txid, clock>>

\* What update_balance may process at this time.
Processable ==
    processable_utxos_for_account(state, InOrder(DepositUtxos), Depositor, clock)

Candidates ==
    IF Processable.ok
    THEN Processable.new_utxos \cup Processable.previously_ignored_utxos
             \cup Processable.previously_quarantined_utxos
    ELSE {}

Tick ==
    /\ \E i \in 1..(Len(DepositTimes) - 1) :
          clock = DepositTimes[i] /\ clock' = DepositTimes[i + 1]
    /\ last' = Call("tick", 0, TRUE, "none")
    /\ UNCHANGED <<replayed, initialized>>
    /\ UNCHANGED <<state, submission, fetched, spent_on_chain, ledger_next_block,
                   next_txid>>

\* The value is too small for the check, or the check found the UTXO tainted.
CheckSuspends ==
    \E utxo \in Candidates, reason \in SuspendedReasons :
        LET r == suspend_utxo(state, utxo, Depositor, reason, clock)
        IN  Deposits("suspend_utxo",
                     [utxo |-> utxo, account |-> Depositor, reason |-> reason,
                      result |-> r.result], r)

\* The check found the UTXO clean.
CheckPasses ==
    \E utxo \in Candidates :
        Deposits("mark_utxo_checked_v2",
                 [utxo |-> utxo, account |-> Depositor,
                  was |-> contains_utxo(state.suspended_utxos, utxo, Depositor)],
                 Ok(mark_utxo_checked_v2(state, utxo, Depositor)))

\* The ledger did not answer the mint: the UTXO, which is not suspended,
\* is marked.
MintUnknown ==
    \E utxo \in Candidates :
        /\ not_suspended(state, utxo, Depositor)
        /\ Deposits("mark_utxo_checked_mint_unknown",
                    [utxo |-> utxo, account |-> Depositor],
                    Ok(mark_utxo_checked_mint_unknown(state, utxo, Depositor)))

\* The ledger minted the UTXOs.
Mint ==
    \E utxos \in (SUBSET Candidates) \ {{}} :
        /\ \A utxo \in utxos : not_suspended(state, utxo, Depositor)
        /\ Deposits("add_utxos", [utxos |-> utxos, account |-> Depositor],
                    Ok(add_utxos(state, Depositor, utxos)))

\* The legacy event of a checked UTXO.
LegacyMarkChecked ==
    \E utxo \in DepositUtxos, kyt_provider \in {<<>>, <<"kyt">>} :
        /\ ~is_known(state, utxo, Depositor)
        /\ Deposits("mark_utxo_checked",
                    [utxo |-> utxo, kyt_provider |-> kyt_provider],
                    Ok(mark_utxo_checked(state, utxo, <<>>, kyt_provider)))

\* The legacy event of a UTXO discarded without account.
LegacyDiscard ==
    \E utxo \in DepositUtxos, reason \in SuspendedReasons :
        /\ ~is_known(state, utxo, Depositor)
        /\ in_no_account(state.suspended_utxos, utxo)
        /\ Deposits("discard_utxo_without_account",
                    [utxo |-> utxo, reason |-> reason],
                    discard_utxo_without_account(state, utxo, reason))

\* The UTXOs observed at the address, in the order the iterator gives them.
Observations ==
    {<<>>, <<Utxo(1)>>, <<Utxo(3)>>, <<Utxo(1), Utxo(3)>>, <<Utxo(3), Utxo(1)>>}

AskProcessable ==
    \E utxos \in Observations :
        /\ last' = Call("processable_utxos_for_account",
                        [utxos |-> utxos, account |-> Depositor, now |-> clock,
                         answer |-> processable_utxos_for_account(
                                        state, utxos, Depositor, clock)],
                        TRUE, "none")
        /\ UNCHANGED <<replayed, initialized>>
        /\ UNCHANGED <<state, submission, fetched, spent_on_chain,
                       ledger_next_block, next_txid, clock>>

NextDeposits ==
    \/ Tick
    \/ CheckSuspends
    \/ CheckPasses
    \/ MintUnknown
    \/ Mint
    \/ LegacyMarkChecked
    \/ LegacyDiscard
    \/ AskProcessable

SpecDeposits == InitDeposits /\ [][NextDeposits]_vars

----------------------------------------------------------------------------
(* C31: processable_utxos_for_account(observed, account, now) files each   *)
(* observed UTXO as follows.  Suspended for the account (the reason of the *)
(* account, else the reason without account) and never checked or checked  *)
(* at least 24 h before now: previously_ignored_utxos for ValueTooSmall,   *)
(* previously_quarantined_utxos for Quarantined.  Suspended and checked    *)
(* less than 24 h before now: the list of suspended UTXOs, with            *)
(* earliest_retry 24 h after the last check.  Not suspended: new_utxos if  *)
(* and only if it is in neither utxos_state_addresses[account] nor         *)
(* finalized_utxos[account].                                               *)

Asked == last.op = "processable_utxos_for_account"

ReasonFor(s, utxo, account) ==
    IF EntryOf(s.suspended_utxos, account, utxo) # <<>>
    THEN EntryOf(s.suspended_utxos, account, utxo)
    ELSE IF utxo \in DOMAIN s.suspended_utxos.utxos_without_account
    THEN <<s.suspended_utxos.utxos_without_account[utxo]>>
    ELSE <<>>

LastChecked(s, utxo) ==
    IF utxo \in DOMAIN s.suspended_utxos.last_time_checked_cache
    THEN <<s.suspended_utxos.last_time_checked_cache[utxo]>> ELSE <<>>

Due(s, utxo, now) ==
    LastChecked(s, utxo) = <<>> \/ now - LastChecked(s, utxo)[1] >= 24

C31_Classification ==
    Asked =>
        LET observed == Range(last.arg.utxos)
            account == last.arg.account
            now == last.arg.now
            answer == last.arg.answer
            held == {u \in observed : /\ ReasonFor(state, u, account) # <<>>
                                      /\ ~Due(state, u, now)}
        IN  /\ answer.previously_ignored_utxos =
                  {u \in observed : /\ ReasonFor(state, u, account) = <<"ValueTooSmall">>
                                    /\ Due(state, u, now)}
            /\ answer.previously_quarantined_utxos =
                  {u \in observed : /\ ReasonFor(state, u, account) = <<"Quarantined">>
                                    /\ Due(state, u, now)}
            /\ Range(answer.suspended_utxos) =
                  {[utxo |-> u, reason |-> ReasonFor(state, u, account)[1],
                    earliest_retry |-> LastChecked(state, u)[1] + 24] : u \in held}
            /\ Len(answer.suspended_utxos) = Cardinality(held)
            /\ answer.new_utxos =
                  {u \in observed :
                      /\ ReasonFor(state, u, account) = <<>>
                      /\ u \notin Bucket(state.utxos_state_addresses, account)
                      /\ u \notin Bucket(state.finalized_utxos, account)}

\* One UTXO quarantined at 1 h is still suspended at 24 h, to be retried at
\* 25 h; the other, quarantined at 0 h, is processable again.
C31_Witness ==
    /\ Asked
    /\ last.arg.now = 24
    /\ last.arg.answer.suspended_utxos = <<SuspendedUtxo(Utxo(1), "Quarantined", 25)>>
    /\ last.arg.answer.previously_quarantined_utxos = {Utxo(3)}

----------------------------------------------------------------------------
(* C32: the result of processable_utxos_for_account holds each UTXO in at  *)
(* most one of new_utxos, previously_ignored_utxos,                        *)
(* previously_quarantined_utxos and the list of suspended UTXOs, and no    *)
(* assertion of assert_utxo_is_fresh fails.                                *)

C32_OnePartition ==
    Asked =>
        LET answer == last.arg.answer
            listed == {answer.suspended_utxos[i].utxo :
                          i \in DOMAIN answer.suspended_utxos}
        IN  /\ answer.ok
            /\ answer.new_utxos \cap answer.previously_ignored_utxos = {}
            /\ answer.new_utxos \cap answer.previously_quarantined_utxos = {}
            /\ answer.previously_ignored_utxos
                  \cap answer.previously_quarantined_utxos = {}
            /\ listed \cap (answer.new_utxos
                                \cup answer.previously_ignored_utxos
                                \cup answer.previously_quarantined_utxos) = {}
            /\ Cardinality(listed) = Len(answer.suspended_utxos)

\* Two UTXOs were observed: one is new, the other was ignored before.
C32_Witness ==
    /\ Asked
    /\ Len(last.arg.utxos) = 2
    /\ Cardinality(last.arg.answer.new_utxos) = 1
    /\ Cardinality(last.arg.answer.previously_ignored_utxos) = 1

----------------------------------------------------------------------------
(* C34: after mark_utxo_checked_v2(utxo, account), contains_utxo(utxo,     *)
(* account) is (None, None): the entry of the account, the entry without   *)
(* account and the time of the last check are gone; checked_utxos[utxo]    *)
(* has status Clean, and processable_utxos_for_account no longer treats    *)
(* the UTXO as suspended for the account.                                  *)

C34_MarkedChecked ==
    last.op = "mark_utxo_checked_v2" =>
        LET utxo == last.arg.utxo
            account == last.arg.account
            su == state.suspended_utxos
        IN  /\ contains_utxo(su, utxo, account)
                  = [last_time_checked |-> <<>>, reason |-> <<>>]
            /\ EntryOf(su, account, utxo) = <<>>
            /\ utxo \notin DOMAIN su.utxos_without_account
            /\ utxo \notin DOMAIN su.last_time_checked_cache
            /\ utxo \in DOMAIN state.checked_utxos
            /\ state.checked_utxos[utxo].status = "Clean"
            /\ \A utxos \in Observations, i \in DOMAIN DepositTimes :
                  LET p == processable_utxos_for_account(
                               state, utxos, account, DepositTimes[i])
                  IN  /\ utxo \notin p.previously_ignored_utxos
                      /\ utxo \notin p.previously_quarantined_utxos
                      /\ \A j \in DOMAIN p.suspended_utxos :
                            p.suspended_utxos[j].utxo # utxo

\* The UTXO had been quarantined and checked before.
C34_Witness ==
    /\ last.op = "mark_utxo_checked_v2"
    /\ last.arg.was.reason = <<"Quarantined">>
    /\ last.arg.was.last_time_checked # <<>>
    /\ last.arg.utxo \notin DOMAIN state.suspended_utxos.last_time_checked_cache

----------------------------------------------------------------------------
(* C35: mark_utxo_checked_mint_unknown(utxo, account) is applied to a UTXO *)
(* that is not suspended for the account and records the status            *)
(* CleanButMintUnknown.  From then on mint_status_unknown_utxos lists the  *)
(* UTXO until a call for that UTXO replaces or removes the marker.         *)

MintUnknownIn(s) == Range(mint_status_unknown_utxos(s))

Marks ==
    last'.op = "mark_utxo_checked_mint_unknown"
        => /\ not_suspended(state, last'.arg.utxo, last'.arg.account)
           /\ last'.arg.utxo \in MintUnknownIn(state')
           /\ state'.checked_utxos[last'.arg.utxo].status = "CleanButMintUnknown"

\* The marker of the UTXO went with a mint or a check of that UTXO.
MintedOrChecked(utxo) ==
    \/ last'.op = "add_utxos" /\ utxo \in last'.arg.utxos
    \/ last'.op = "mark_utxo_checked_v2" /\ last'.arg.utxo = utxo

\* C35 as stated: only add_utxos with the UTXO and mark_utxo_checked_v2 for
\* it end the listing.
C35_MarkerKeptAsClaimed ==
    [][/\ Marks
       /\ \A utxo \in MintUnknownIn(state) \ MintUnknownIn(state') :
             MintedOrChecked(utxo)]_vars

\* C35: the listing of a marked UTXO ends with add_utxos containing it, with
\* mark_utxo_checked_v2 for it or with the deprecated mark_utxo_checked for
\* it, and with no other transition.
C35_MarkerKept ==
    [][/\ Marks
       /\ \A utxo \in MintUnknownIn(state) \ MintUnknownIn(state') :
             \/ MintedOrChecked(utxo)
             \/ last'.op = "mark_utxo_checked" /\ last'.arg.utxo = utxo]_vars

\* The marker of one UTXO is still there after the other was suspended a
\* day later.
C35_Witness ==
    /\ last.op = "suspend_utxo"
    /\ last.arg.utxo = Utxo(3)
    /\ clock = 24
    /\ Utxo(1) \in MintUnknownIn(state)

====
